---- MODULE Spec2Model ----
(***************************************************************************)
(* A model of VCLI-0.2.20.py: the resource delta engine (_modifyCompute,   *)
(* _addVmStorage), the tag association engine (_addVmTag, _removeVmTag),   *)
(* the task supervisor (_waitOnTask) and the batch loops that drive them,  *)
(* the inventory resolver (_getObjects, _getVmObjects, _getNetworkObjects),*)
(* _addVmNic, _snapshot, the renames of _change, the filters of            *)
(* _getVmObjects, _clone, _shutdown, _addVmDisk and _toList.               *)
(* Specifications: SpecCompute, SpecStorage, SpecTag, SpecTask,            *)
(* SpecResolve, SpecNic, SpecSnapshot, SpecChange, SpecList, SpecClone,    *)
(* SpecReboot, SpecWait, SpecDisk, SpecToList and SpecSearch.              *)
(***************************************************************************)
EXTENDS Integers, Sequences, FiniteSets, TLC

VARIABLES
    vm,         \* delta engine: the VM's summary/config as the remote side holds it
    last,       \* delta engine: the last call of the tool and what it submitted
    pending,    \* delta engine: a submitted Reconfigure the tool stopped waiting for
    attached,   \* tag engine: the tags attached to each VM (the remote association store)
    tpc,        \* tag engine: where _addVmTag / _removeVmTag stands
    tcall,      \* tag engine: the call in progress (or the last one) and what it resolved
    tq,         \* tag engine: the (VM, tag) pairs, or the VMs, still to be processed
    dq,         \* tag engine: _objTags of the VM _removeVmTag is working on
    tlog,       \* tag engine: the association operations of the call, per loop iteration
    vmState,    \* batch: each VM's runtime.powerState on the remote side, or "destroyed"
    tasks,      \* batch: the tasks submitted so far, in order: VM, request and info.state
    bpc,        \* batch: where the batch loop and _waitOnTask stand
    batch,      \* batch: the run: operation, resolved VMs, VMs still to do, wait budget
    wait,       \* batch: the locals of the _waitOnTask call in progress
    outcome,    \* batch: the record of the last _waitOnTask call that returned
    timedOut,   \* batch: the tasks still queued or running when their wait budget ran out
    visited,    \* batch: the VMs the loop has taken up
    inv,        \* resolver: the inventory, in the order RetrievePropertiesEx returns it
    snap,       \* resolver: each VM's snapshot tree on the remote side
    nics,       \* resolver: the networks of the adapters of the VM _addVmNic works on
    rcall,      \* resolver: the call in progress, or the last one, and what it resolved
    rprev       \* resolver: the resolution before the last, the inventory unchanged since

deltaVars == <<vm, last, pending>>
tagVars == <<attached, tpc, tcall, tq, dq, tlog>>
taskVars == <<vmState, tasks, bpc, batch, wait, outcome, timedOut, visited>>
resVars == <<inv, snap, nics, rcall, rprev>>
vars == <<vm, last, pending, attached, tpc, tcall, tq, dq, tlog,
          vmState, tasks, bpc, batch, wait, outcome, timedOut, visited,
          inv, snap, nics, rcall, rprev>>
notDeltaVars == <<tagVars, taskVars, resVars>>
notTagVars == <<deltaVars, taskVars, resVars>>
notTaskVars == <<deltaVars, tagVars, resVars>>
notResVars == <<deltaVars, tagVars, taskVars>>

\* ---------------------------------------------------------------- values

\* Python's None for an optional argument: <<>> is None, <<v>> is the value v.
None == <<>>
Some(v) == <<v>>
Val(x) == x[1]

\* a string is the tuple of its characters
LowerChar(c) ==
    CASE c = "B" -> "b"
      [] c = "E" -> "e"
      [] c = "P" -> "p"
      [] c = "V" -> "v"
      [] OTHER -> c

\* str.lower()
Lower(s) == [i \in 1..Len(s) |-> LowerChar(s[i])]

\* Python's  a in b  for two strings: a is a substring of b
In(a, b) == \E i \in 0..(Len(b) - Len(a)) : SubSeq(b, i + 1, i + Len(a)) = a

\* the orders in which a dict or a list of the set S can be iterated
Perms(S) == {f \in [1..Cardinality(S) -> S] : \A i, j \in 1..Cardinality(S) : f[i] = f[j] => i = j}

NoTagCall == [op |-> "none"]

\* the tag engine at rest, nothing attached
IdleTag ==
    /\ attached = [v \in {"vm1", "vm2"} |-> {}]
    /\ tpc = "idle"
    /\ tcall = NoTagCall
    /\ tq = <<>>
    /\ dq = {}
    /\ tlog = <<>>

NoBatch == [op |-> "none"]
NoWait == [task |-> 0]
NoOutcome == [task |-> 0]

\* no batch run and no task
IdleTask ==
    /\ vmState = [v \in {"vm1", "vm2"} |-> "poweredOff"]
    /\ tasks = <<>>
    /\ bpc = "idle"
    /\ batch = NoBatch
    /\ wait = NoWait
    /\ outcome = NoOutcome
    /\ timedOut = {}
    /\ visited = {}

NoResCall == [op |-> "none"]

\* nothing resolved, an empty inventory
IdleRes ==
    /\ inv = <<>>
    /\ snap = <<>>
    /\ nics = <<>>
    /\ rcall = NoResCall
    /\ rprev = NoResCall

\* ---------------------------------------------------------------- bounds

MaxCpu == 3          \* largest CPU count a VM of the model reaches
MaxMemGB == 2        \* largest memory (GB) a VM of the model reaches
MaxCpuArg == 2       \* largest --cpu argument
MaxMemArg == 1       \* largest --memory argument (GB)

MBperGB == 1024

PowerStates == {"poweredOn", "poweredOff"}
TaskStates == {"queued", "running", "success", "error"}

\* ------------------------------------------------- _modifyCompute (pure part)

ComputeActions == {"set", "add", "delete"}
CpuArgs == {None} \cup {Some(n) : n \in 0..MaxCpuArg}
MemArgs == {None} \cup {Some(g) : g \in 0..MaxMemArg}

\* _cpuDelta = int(_cpu) if _cpu is not None else int(0)
CpuDelta(cpu) == IF cpu # None THEN Val(cpu) ELSE 0
\* _memDelta = float(_memory * 1024) if _memory is not None else float(0)
MemDelta(memory) == IF memory # None THEN Val(memory) * MBperGB ELSE 0

\* the new value of one dimension, per mode
NewValue(action, current, delta) ==
    CASE action = "set" -> IF delta > 0 THEN delta ELSE current
      [] action = "add" -> current + delta
      [] action = "delete" -> IF current > delta THEN current - delta ELSE delta

CpuNew(action, cpu, v) == NewValue(action, v.numCpu, CpuDelta(cpu))
MemNew(action, memory, v) == NewValue(action, v.memorySizeMB, MemDelta(memory))

\* ReduceGuard with the memory comparison left out
ReduceGuardCpuOnly(v, cpuNew, memNew) ==
    /\ v.powerState = "poweredOn"
    /\ cpuNew < v.numCpu

\* compute resource can only be reduced when VM is off
ReduceGuard(v, cpuNew, memNew) ==
    /\ v.powerState = "poweredOn"
    /\ (cpuNew < v.numCpu \/ memNew < v.memorySizeMB)

NoChange(v, cpuNew, memNew) == v.numCpu = cpuNew /\ v.memorySizeMB = memNew

\* TRUE when _modifyCompute reaches _vm.Reconfigure(_spec)
ComputeSubmits(action, cpu, memory, v) ==
    /\ ~(cpu = None /\ memory = None)
    /\ ~ReduceGuard(v, CpuNew(action, cpu, v), MemNew(action, memory, v))
    /\ ~NoChange(v, CpuNew(action, cpu, v), MemNew(action, memory, v))

\* ------------------------------------------------- _addVmStorage (pure part)

MaxDisks == 2        \* most disks on the VM
MaxSizeArg == 2      \* largest --storage argument (GB)
MaxCapGB == 3        \* largest disk capacity (GB) the model grows a disk to

KBperGB == MBperGB * MBperGB
HalfGB == KBperGB \div 2

SizeArgs == (0 - 1)..MaxSizeArg
DiskIdArgs == {None} \cup {Some(n) : n \in 0..(MaxDisks + 1)}

Abs(n) == IF n < 0 THEN 0 - n ELSE n

\* the index in disks of the device _getVmDiskObject returns, 0 for None:
\* the last disk when no id is given, else the first disk labelled 'Hard disk <id>'
GetVmDiskObject(disks, diskId) ==
    IF diskId = None
    THEN Len(disks)
    ELSE LET hits == {i \in 1..Len(disks) : disks[i].label = Val(diskId)}
         IN  IF hits = {} THEN 0 ELSE CHOOSE i \in hits : \A j \in hits : i <= j

\* _newSize = _vmDisk.capacityInKB / 1024 / 1024 + abs(_size)   (integer division)
NewSize(disk, size) == ((disk.capacityInKB \div MBperGB) \div MBperGB) + Abs(size)

\* StorageSubmits with the thick-provisioning check left out
StorageSubmitsAnyProvisioning(size, diskId, thick, v) ==
    /\ ~(size = 0)
    /\ ~(size < 0)
    /\ GetVmDiskObject(v.disks, diskId) # 0

\* TRUE when _addVmStorage reaches _vm.Reconfigure(_configSpec)
StorageSubmits(size, diskId, thick, v) ==
    /\ ~(size = 0)
    /\ ~(size < 0)
    /\ GetVmDiskObject(v.disks, diskId) # 0
    /\ ~(~v.disks[GetVmDiskObject(v.disks, diskId)].thinProvisioned /\ ~thick)

\* ------------------------------------------------- the remote side of a Reconfigure

\* the VM after the remote side has carried out a submitted ConfigSpec
Applied(v, spec) ==
    IF spec.kind = "compute"
    THEN [v EXCEPT !.numCpu = spec.numCPUs, !.memorySizeMB = spec.memoryMB]
    ELSE [v EXCEPT !.disks[spec.disk].capacityInKB = spec.capacityInKB]

\* what _waitOnTask can return for a submitted task, and what is left behind
Outcome(v, spec, st) ==
    [vm |-> IF st = "success" THEN Applied(v, spec) ELSE v,
     pending |-> IF st \in {"queued", "running"} THEN Some(spec) ELSE None]

\* ------------------------------------------------- delta engine: actions

InitDisks ==
    {<<>>}
    \cup
    {<<[label |-> 1, thinProvisioned |-> t, capacityInKB |-> c]>> :
        t \in BOOLEAN, c \in {KBperGB, KBperGB + HalfGB}}
    \cup
    {<<[label |-> 1, thinProvisioned |-> TRUE, capacityInKB |-> KBperGB],
       [label |-> 2, thinProvisioned |-> t, capacityInKB |-> c]>> :
        t \in BOOLEAN, c \in {KBperGB, KBperGB + HalfGB}}

NoCall == [op |-> "none"]

\* the delta engine at rest: one powered-off VM without disks
IdleDelta ==
    /\ vm = [powerState |-> "poweredOff", numCpu |-> 1, memorySizeMB |-> MBperGB, disks |-> <<>>]
    /\ last = NoCall
    /\ pending = None

\* the compute specification: one disk, every power state, CPU count and memory
InitCompute ==
    /\ vm \in [powerState : PowerStates, numCpu : 1..2,
               memorySizeMB : {MBperGB, 2 * MBperGB},
               disks : {<<[label |-> 1, thinProvisioned |-> TRUE, capacityInKB |-> KBperGB]>>}]
    /\ last = NoCall
    /\ pending = None
    /\ IdleTag
    /\ IdleTask
    /\ IdleRes

\* the storage specification: every disk layout on one powered-off VM
InitStorage ==
    /\ vm \in [powerState : {"poweredOff"}, numCpu : {1}, memorySizeMB : {MBperGB},
               disks : InitDisks]
    /\ last = NoCall
    /\ pending = None
    /\ IdleTag
    /\ IdleTask
    /\ IdleRes

\* the record of one call: its arguments, the VM it saw, what it computed,
\* whether it reached Reconfigure, the ConfigSpec it sent and the state it returned
ComputeCall(action, cpu, memory, v, submitted, spec, state) ==
    [op |-> "compute", action |-> action, cpu |-> cpu, memory |-> memory, before |-> v,
     cpuNew |-> CpuNew(action, cpu, v), memNew |-> MemNew(action, memory, v),
     submitted |-> submitted, spec |-> spec, state |-> state]

StorageCall(size, diskId, thick, v, submitted, spec, state) ==
    [op |-> "storage", size |-> size, diskId |-> diskId, thick |-> thick, before |-> v,
     submitted |-> submitted, spec |-> spec, state |-> state]

ModifyCompute(action, cpu, memory) ==
    LET cpuNew == CpuNew(action, cpu, vm)
        memNew == MemNew(action, memory, vm)
        spec == [kind |-> "compute", numCPUs |-> cpuNew, memoryMB |-> memNew]
    IN  /\ pending = None
        /\ UNCHANGED notDeltaVars
        /\ cpuNew <= MaxCpu
        /\ memNew <= MaxMemGB * MBperGB
        /\ IF ComputeSubmits(action, cpu, memory, vm)
           THEN \E st \in TaskStates :
                  /\ last' = ComputeCall(action, cpu, memory, vm, TRUE, Some(spec), Some(st))
                  /\ vm' = Outcome(vm, spec, st).vm
                  /\ pending' = Outcome(vm, spec, st).pending
           ELSE /\ last' = ComputeCall(action, cpu, memory, vm, FALSE, None, None)
                /\ UNCHANGED <<vm, pending>>

AddVmStorage(size, diskId, thick) ==
    LET idx == GetVmDiskObject(vm.disks, diskId)
    IN  /\ pending = None
        /\ UNCHANGED notDeltaVars
        /\ IF StorageSubmits(size, diskId, thick, vm)
           THEN LET spec == [kind |-> "storage", disk |-> idx,
                             capacityInKB |-> NewSize(vm.disks[idx], size) * KBperGB]
                IN  /\ NewSize(vm.disks[idx], size) <= MaxCapGB
                    /\ \E st \in TaskStates :
                         /\ last' = StorageCall(size, diskId, thick, vm, TRUE, Some(spec), Some(st))
                         /\ vm' = Outcome(vm, spec, st).vm
                         /\ pending' = Outcome(vm, spec, st).pending
           ELSE /\ last' = StorageCall(size, diskId, thick, vm, FALSE, None, None)
                /\ UNCHANGED <<vm, pending>>

\* a Reconfigure the tool timed out on ends on the remote side
RemoteFinish ==
    /\ pending # None
    /\ \E ok \in BOOLEAN :
         vm' = IF ok THEN Applied(vm, Val(pending)) ELSE vm
    /\ pending' = None
    /\ UNCHANGED last
    /\ UNCHANGED notDeltaVars

NextCompute ==
    \/ \E action \in ComputeActions, cpu \in CpuArgs, memory \in MemArgs :
          ModifyCompute(action, cpu, memory)
    \/ RemoteFinish

NextStorage ==
    \/ \E size \in SizeArgs, diskId \in DiskIdArgs, thick \in BOOLEAN :
          AddVmStorage(size, diskId, thick)
    \/ RemoteFinish

SpecCompute == InitCompute /\ [][NextCompute]_vars
SpecStorage == InitStorage /\ [][NextStorage]_vars

\* ------------------------------------------------- delta engine: properties

\* C7: _modifyCompute never submits a Reconfigure for a powered-on VM when the
\* new CPU count or the new memory it computed is lower than the current one, in
\* any mode; it returns None with nothing submitted.
C7_NoReduceWhilePoweredOn ==
    (last.op = "compute" /\ last.before.powerState = "poweredOn") =>
        /\ last.submitted =>
              /\ Val(last.spec).numCPUs >= last.before.numCpu
              /\ Val(last.spec).memoryMB >= last.before.memorySizeMB
        /\ (last.cpuNew < last.before.numCpu \/ last.memNew < last.before.memorySizeMB) =>
              /\ ~last.submitted
              /\ last.state = None
              /\ vm = last.before

C7_Witness ==
    /\ last.op = "compute"
    /\ last.before.powerState = "poweredOn"
    /\ last.memNew < last.before.memorySizeMB
    /\ last.cpuNew >= last.before.numCpu
    /\ ~last.submitted

\* C8: the new (cpu, memory) values _modifyCompute computes are: in mode set the
\* supplied value for a supplied dimension and the current value otherwise; in
\* mode add current + delta; in mode remove current - delta.
C8_NewValuesPerMode ==
    (last.op = "compute" /\ ~(last.cpu = None /\ last.memory = None)) =>
        LET b == last.before
            cpuDelta == IF last.cpu = None THEN 0 ELSE Val(last.cpu)
            memDelta == IF last.memory = None THEN 0 ELSE Val(last.memory) * MBperGB
        IN  /\ last.action = "set" =>
                 /\ last.cpuNew = (IF last.cpu = None THEN b.numCpu ELSE cpuDelta)
                 /\ last.memNew = (IF last.memory = None THEN b.memorySizeMB ELSE memDelta)
            /\ last.action = "add" =>
                 /\ last.cpuNew = b.numCpu + cpuDelta
                 /\ last.memNew = b.memorySizeMB + memDelta
            /\ last.action = "delete" =>
                 /\ last.cpuNew = b.numCpu - cpuDelta
                 /\ last.memNew = b.memorySizeMB - memDelta

\* C9: for a powered-on VM, _modifyCompute in mode remove with a CPU delta of at
\* least 1 is rejected: no Reconfigure is submitted and the VM's CPU and memory
\* stay unchanged.
C9_RemoveWhilePoweredOnRejected ==
    ( /\ last.op = "compute"
      /\ last.action = "delete"
      /\ last.before.powerState = "poweredOn"
      /\ last.cpu # None
      /\ CpuDelta(last.cpu) >= 1 ) =>
        /\ ~last.submitted
        /\ vm.numCpu = last.before.numCpu
        /\ vm.memorySizeMB = last.before.memorySizeMB

\* C10: _addVmStorage submits no Reconfigure when the size delta is zero or
\* negative, when the target disk is not found, or when the target disk is
\* thick-provisioned and the thick override is not set.
C10_TargetFound ==
    IF last.diskId = None
    THEN Len(last.before.disks) > 0
    ELSE \E i \in 1..Len(last.before.disks) : last.before.disks[i].label = Val(last.diskId)

C10_TargetThick ==
    /\ C10_TargetFound
    /\ ~last.before.disks[GetVmDiskObject(last.before.disks, last.diskId)].thinProvisioned

C10_StorageRejections ==
    ( /\ last.op = "storage"
      /\ \/ last.size <= 0
         \/ ~C10_TargetFound
         \/ (C10_TargetThick /\ ~last.thick) ) =>
        /\ ~last.submitted
        /\ last.state = None
        /\ vm = last.before
        /\ pending = None

C10_Witness ==
    /\ last.op = "storage"
    /\ last.size > 0
    /\ C10_TargetThick
    /\ ~last.thick
    /\ ~last.submitted

\* C11: when _addVmStorage grows a thin disk by a positive delta of d GB, the
\* Reconfigure it submits asks for the disk's current capacity (in KB) plus d GB,
\* whatever the current capacity is, and so never for less than current + d.
C11_GrowsByDelta ==
    ( /\ last.op = "storage"
      /\ last.submitted
      /\ last.size > 0
      /\ last.before.disks[GetVmDiskObject(last.before.disks, last.diskId)].thinProvisioned ) =>
        Val(last.spec).capacityInKB =
            last.before.disks[GetVmDiskObject(last.before.disks, last.diskId)].capacityInKB
                + last.size * KBperGB

\* ================================================= tag association engine

MaxTokens == 2       \* most tag tokens in one call

VMs == {"vm1", "vm2"}

\* the categories of the inventory: name and cardinality
Categories ==
    [c1 |-> [name |-> <<"B", "k">>, cardinality |-> "SINGLE"],
     c2 |-> [name |-> <<"E", "n">>, cardinality |-> "MULTIPLE"]]

\* the tags of the inventory: name and category_id; a name is unique in its
\* category only, and t2 and t4 differ by case alone
Tags ==
    [t1 |-> [name |-> <<"P", "1">>, category_id |-> "c1"],
     t2 |-> [name |-> <<"P", "2">>, category_id |-> "c1"],
     t3 |-> [name |-> <<"P", "1">>, category_id |-> "c2"],
     t4 |-> [name |-> <<"p", "2">>, category_id |-> "c2"]]

TagIds == DOMAIN Tags
CatOf(t) == Categories[Tags[t].category_id]

\* the tag tokens a caller may pass, and the -C / --category hints
RawTokens == {<<"P", "1">>, <<"p", "2">>, <<"d", "v">>}
TokenArgs == {T \in SUBSET RawTokens : Cardinality(T) \in 1..MaxTokens}
CategoryArgs == {None, Some(<<"b">>), Some(<<"E", "n">>), Some(<<"b", "k", "2">>)}

\* _toList: the tokens lower-cased
ToList(tokens) == {Lower(t) : t \in tokens}

\* does tag name match?  if specified, does category name match?
TagMatches(t, tokens, category) ==
    /\ Lower(Tags[t].name) \in ToList(tokens)
    /\ ~(category # None /\ ~In(Lower(Val(category)), Lower(CatOf(t).name)))

\* unique index key is category.tag
Key(t, category) ==
    IF category # None THEN <<Val(category), Tags[t].name>> ELSE <<Tags[t].name>>

\* _addVmTag, lines 3506-3536: the tags of the inventory the tokens resolve to
AddMatched(tokens, category) == {t \in TagIds : TagMatches(t, tokens, category)}

\* 'More than one tag found': two matching tags with the same key
AddAmbiguous(tokens, category) ==
    \E t, u \in AddMatched(tokens, category) : t # u /\ Key(t, category) = Key(u, category)

IsSingle(card) == card = "SINGLE"

\* Conflicts with the name test inverted
ConflictsSameName(t, held) ==
    {t0 \in held :
        /\ CatOf(t0).name = CatOf(t).name
        /\ CatOf(t0).cardinality = CatOf(t).cardinality
        /\ Tags[t0].name = Tags[t].name}

\* Conflicts with the category test left out
ConflictsAnyCategory(t, held) ==
    {t0 \in held : Tags[t0].name # Tags[t].name}

\* the attached tags the Highlander rule removes before attaching t:
\* _cat0 == _cat and _card0 == _card and _name0 != _name
Conflicts(t, held) ==
    {t0 \in held :
        /\ CatOf(t0).name = CatOf(t).name
        /\ CatOf(t0).cardinality = CatOf(t).cardinality
        /\ Tags[t0].name # Tags[t].name}

\* RemoveObjTags that keeps the ambiguous entries
RemoveObjTagsAll(held, tokens, category) ==
    {t \in held : TagMatches(t, tokens, category)}

\* _removeVmTag, lines 4104-4118: the attached tags of one VM the tokens resolve to
RemoveMatched(held, tokens, category) == {t \in held : TagMatches(t, tokens, category)}

\* _objTags without the entries set to None ('Skipping ambiguous tag')
RemoveObjTags(held, tokens, category) ==
    {t \in RemoveMatched(held, tokens, category) :
        \A u \in RemoveMatched(held, tokens, category) :
            u # t => Key(u, category) # Key(t, category)}

\* the loop  for _keyVm in _objVms: for _keyTag in _objTags  as a sequence of pairs
Pairs(vmOrder, tagOrder) ==
    [k \in 1..(Len(vmOrder) * Len(tagOrder)) |->
        <<vmOrder[((k - 1) \div Len(tagOrder)) + 1], tagOrder[((k - 1) % Len(tagOrder)) + 1]>>]

TagCall(op, tokens, objVms, category, objTags, before) ==
    [op |-> op, tokens |-> tokens, objVms |-> objVms, category |-> category,
     objTags |-> objTags, before |-> before]

\* _addVmTag up to the loop over the VMs: resolve the tags and the VMs
AddVmTag(tokens, objVms, category) ==
    /\ tpc = "idle"
    /\ tlog' = <<>>
    /\ dq' = {}
    /\ UNCHANGED attached
    /\ UNCHANGED notTagVars
    /\ IF \/ AddAmbiguous(tokens, category)
          \/ AddMatched(tokens, category) = {}
          \/ objVms = {}
       THEN /\ tcall' = TagCall("add", tokens, objVms, category, {}, attached)
            /\ tq' = <<>>
            /\ tpc' = "done"
       ELSE /\ tcall' = TagCall("add", tokens, objVms, category,
                                AddMatched(tokens, category), attached)
            /\ \E vmOrder \in Perms(objVms), tagOrder \in Perms(AddMatched(tokens, category)) :
                  tq' = Pairs(vmOrder, tagOrder)
            /\ tpc' = "add"

\* lines 3553-3567: the Highlander rule detaches the conflicting tag
AddVmTagDetach ==
    LET v == Head(tq)[1]
        t == Head(tq)[2]
    IN  /\ tpc = "add"
        /\ IsSingle(CatOf(t).cardinality)
        /\ \E t0 \in Conflicts(t, attached[v]) :
              /\ attached' = [attached EXCEPT ![v] = @ \ {t0}]
              /\ tlog' = Append(tlog, [vm |-> v, tag |-> t, held |-> attached[v],
                                       ops |-> << <<"detach", t0>> >>])
        /\ tpc' = "attach"
        /\ UNCHANGED <<tcall, tq, dq>>
        /\ UNCHANGED notTagVars

\* line 3570: attach, then the next (VM, tag) pair
AddVmTagAttach ==
    LET v == Head(tq)[1]
        t == Head(tq)[2]
    IN  /\ \/ tpc = "attach"
           \/ /\ tpc = "add"
              /\ ~(IsSingle(CatOf(t).cardinality) /\ Conflicts(t, attached[v]) # {})
        /\ attached' = [attached EXCEPT ![v] = @ \cup {t}]
        /\ tlog' = IF tpc = "attach"
                   THEN [tlog EXCEPT ![Len(tlog)].ops = Append(@, <<"attach", t>>)]
                   ELSE Append(tlog, [vm |-> v, tag |-> t, held |-> attached[v],
                                      ops |-> << <<"attach", t>> >>])
        /\ tq' = Tail(tq)
        /\ tpc' = IF Tail(tq) = <<>> THEN "done" ELSE "add"
        /\ UNCHANGED <<tcall, dq>>
        /\ UNCHANGED notTagVars

\* _removeVmTag up to the loop over the VMs
RemoveVmTag(tokens, objVms, category) ==
    /\ tpc = "idle"
    /\ tlog' = <<>>
    /\ dq' = {}
    /\ tcall' = TagCall("remove", tokens, objVms, category, {}, attached)
    /\ UNCHANGED attached
    /\ UNCHANGED notTagVars
    /\ IF objVms = {}
       THEN tq' = <<>> /\ tpc' = "done"
       ELSE (\E vmOrder \in Perms(objVms) : tq' = vmOrder) /\ tpc' = "remove"

\* lines 4097-4124: list the attached tags of the next VM and build _objTags
RemoveVmTagList ==
    LET v == Head(tq)
        objTags == RemoveObjTags(attached[v], tcall.tokens, tcall.category)
    IN  /\ tpc = "remove"
        /\ tlog' = Append(tlog, [vm |-> v, tag |-> "none", held |-> attached[v], ops |-> <<>>])
        /\ IF objTags = {}
           THEN /\ tq' = Tail(tq)
                /\ dq' = {}
                /\ tpc' = IF Tail(tq) = <<>> THEN "done" ELSE "remove"
           ELSE /\ dq' = objTags
                /\ tpc' = "detach"
                /\ UNCHANGED tq
        /\ UNCHANGED <<attached, tcall>>
        /\ UNCHANGED notTagVars

\* lines 4126-4132: detach one tag of _objTags
RemoveVmTagDetach ==
    LET v == Head(tq)
    IN  /\ tpc = "detach"
        /\ \E t \in dq :
              /\ attached' = [attached EXCEPT ![v] = @ \ {t}]
              /\ dq' = dq \ {t}
              /\ tlog' = [tlog EXCEPT ![Len(tlog)].ops = Append(@, <<"detach", t>>)]
              /\ IF dq \ {t} = {}
                 THEN /\ tq' = Tail(tq)
                      /\ tpc' = IF Tail(tq) = <<>> THEN "done" ELSE "remove"
                 ELSE UNCHANGED <<tq, tpc>>
        /\ UNCHANGED tcall
        /\ UNCHANGED notTagVars

\* the call returns to its caller: its locals are gone
TagReturn ==
    /\ tpc = "done"
    /\ tpc' = "idle"
    /\ tcall' = NoTagCall
    /\ tq' = <<>>
    /\ dq' = {}
    /\ tlog' = <<>>
    /\ UNCHANGED attached
    /\ UNCHANGED notTagVars

InitTag ==
    /\ IdleTag
    /\ IdleTask
    /\ IdleRes
    /\ vm = [powerState |-> "poweredOff", numCpu |-> 1, memorySizeMB |-> MBperGB, disks |-> <<>>]
    /\ last = NoCall
    /\ pending = None

NextTag ==
    \/ \E tokens \in TokenArgs, objVms \in SUBSET VMs, category \in CategoryArgs :
          AddVmTag(tokens, objVms, category)
    \/ AddVmTagDetach
    \/ AddVmTagAttach
    \/ \E tokens \in TokenArgs, objVms \in SUBSET VMs, category \in CategoryArgs :
          RemoveVmTag(tokens, objVms, category)
    \/ RemoveVmTagList
    \/ RemoveVmTagDetach
    \/ TagReturn

SpecTag == InitTag /\ [][NextTag]_vars

\* ------------------------------------------------- tag engine: properties

SingleCategories == {c \in DOMAIN Categories : IsSingle(Categories[c].cardinality)}

\* C1: Highlander invariant: in every state, also between the detach and the
\* attach of one _addVmTag iteration, every VM holds at most one tag of each
\* SINGLE-cardinality category.
C1_Highlander ==
    \A v \in VMs : \A c \in SingleCategories :
        Cardinality({t \in attached[v] : Tags[t].category_id = c}) <= 1

\* an intermediate state: the conflicting tag is detached, the new one not yet attached
C1_Witness ==
    /\ tpc = "attach"
    /\ tlog # <<>>
    /\ tlog[Len(tlog)].ops # <<>>
    /\ tlog[Len(tlog)].ops[1][1] = "detach"
    /\ \E v \in VMs : \E t \in attached[v] : Tags[t].category_id \in SingleCategories

\* the tags of held that differ from t and are of t's SINGLE category
C2_Others(t, held) ==
    {t1 \in held : t1 # t /\ Tags[t1].category_id = Tags[t].category_id}

\* the iterations of the call that are over
C2_Finished == IF tpc \in {"done", "add"} THEN 1..Len(tlog) ELSE 1..(Len(tlog) - 1)

\* C2: when _addVmTag attaches T2 to a VM holding a different tag T1 of the same
\* SINGLE category, the association operations issued for that VM and tag are
\* exactly detach(T1) then attach(T2), and that pair is processed once.
C2_DetachThenAttach ==
    tcall.op = "add" =>
        \A k \in 1..Len(tlog) :
            LET r == tlog[k]
            IN  (Tags[r.tag].category_id \in SingleCategories /\ C2_Others(r.tag, r.held) # {}) =>
                   /\ \E t1 \in C2_Others(r.tag, r.held) :
                         /\ r.ops[1] = <<"detach", t1>>
                         /\ k \in C2_Finished => r.ops = << <<"detach", t1>>, <<"attach", r.tag>> >>
                   /\ \A j \in 1..Len(tlog) :
                         (tlog[j].vm = r.vm /\ tlog[j].tag = r.tag) => j = k

C2_Witness ==
    /\ tcall.op = "add"
    /\ tpc = "done"
    /\ \E k \in 1..Len(tlog) :
          /\ Tags[tlog[k].tag].category_id \in SingleCategories
          /\ C2_Others(tlog[k].tag, tlog[k].held) # {}
          /\ Len(tlog[k].ops) = 2

\* the tag passes the filters of the last call for the lower-cased token n
C17_Passes(t, n) ==
    /\ Lower(Tags[t].name) = n
    /\ (tcall.category = None \/ In(Lower(Val(tcall.category)), Lower(CatOf(t).name)))

\* the tokens of the last call that match tags of two or more categories
C17_AmbiguousTokens ==
    {n \in ToList(tcall.tokens) :
        \E t, u \in TagIds :
            /\ Tags[t].category_id # Tags[u].category_id
            /\ C17_Passes(t, n)
            /\ C17_Passes(u, n)}

\* C17: in _addVmTag, when a tag token matches (case-insensitively) tags of two or
\* more categories that pass the category-hint filter, resolution fails as
\* ambiguous: no attach and no detach is issued for that token on any VM.
C17_NoOperationForAmbiguousToken ==
    tcall.op = "add" =>
        \A k \in 1..Len(tlog) : Lower(Tags[tlog[k].tag].name) \notin C17_AmbiguousTokens

\* the attached tags of one VM the tokens of the last call match
C18_Matched(held) == {t \in held : Lower(Tags[t].name) \in ToList(tcall.tokens)}

\* without a hint the key of a tag is its bare name: another matched tag of the VM
\* has the same one
C18_SameKey(t, held) == \E u \in C18_Matched(held) : u # t /\ Tags[u].name = Tags[t].name

\* the iterations over the VMs that are over
C18_Finished == IF tpc = "detach" THEN 1..(Len(tlog) - 1) ELSE 1..Len(tlog)

C18_Detaches(r, t) == {j \in 1..Len(r.ops) : r.ops[j] = <<"detach", t>>}

\* C18: in _removeVmTag, for each VM, when two or more of the VM's attached tags
\* resolve to the same key (the same bare tag name in different categories, no
\* hint), none of them is detached from that VM, while the tags with an
\* unambiguous key, on the same VM and on the other VMs, are detached.
C18_AmbiguousKeySkipped ==
    (tcall.op = "remove" /\ tcall.category = None) =>
        \A k \in 1..Len(tlog) :
            \A t \in C18_Matched(tlog[k].held) :
                IF C18_SameKey(t, tlog[k].held)
                THEN /\ C18_Detaches(tlog[k], t) = {}
                     /\ t \in attached[tlog[k].vm]
                ELSE k \in C18_Finished =>
                        /\ Cardinality(C18_Detaches(tlog[k], t)) = 1
                        /\ t \notin attached[tlog[k].vm]

\* one VM keeps two tags of one key and loses a third tag, the other VM loses a tag
C18_Witness ==
    /\ tcall.op = "remove"
    /\ tcall.category = None
    /\ tpc = "done"
    /\ Len(tlog) = 2
    /\ \E k \in 1..2 :
          /\ \E t \in C18_Matched(tlog[k].held) : C18_SameKey(t, tlog[k].held)
          /\ tlog[k].ops # <<>>
          /\ tlog[3 - k].ops # <<>>

\* the hint is part of the category name of t or that name is part of the hint,
\* whatever the case of the letters
C28_Passes(t, category) ==
    \/ In(Lower(Val(category)), Lower(CatOf(t).name))
    \/ In(Lower(CatOf(t).name), Lower(Val(category)))

\* the tags of the set S a call resolves to when the hint is matched both ways
C28_Resolved(S, tokens, category) ==
    {t \in S : /\ Lower(Tags[t].name) \in ToList(tokens)
               /\ category # None => C28_Passes(t, category)}

\* the tags of C28_Resolved whose key no other of them has
C28_Unambiguous(S, tokens, category) ==
    {t \in C28_Resolved(S, tokens, category) :
        \A u \in C28_Resolved(S, tokens, category) :
            u # t => Key(u, category) # Key(t, category)}

\* C28: in the tag resolution of attach and detach a tag passes the category-hint
\* filter if and only if the hint is a case-insensitive substring of the name of
\* the tag's category or that name is a case-insensitive substring of the hint.
C28_HintEitherDirection ==
    /\ (tcall.op = "add" /\ tcall.objVms # {}) =>
          tcall.objTags =
              IF C28_Unambiguous(TagIds, tcall.tokens, tcall.category)
                     = C28_Resolved(TagIds, tcall.tokens, tcall.category)
              THEN C28_Resolved(TagIds, tcall.tokens, tcall.category)
              ELSE {}
    /\ (tcall.op = "remove" /\ tlog # <<>> /\ tlog[Len(tlog)].ops = <<>>) =>
          C28_Unambiguous(tlog[Len(tlog)].held, tcall.tokens, tcall.category)
              = IF tpc = "detach" THEN dq ELSE {}

\* ================================================= batch loops and the task supervisor

MaxWait == 2         \* largest wait budget (-W / --wait)

BatchOps == {"destroy", "stop", "start", "snapshot", "change"}
WaitArgs == 1..MaxWait

\* IsTerminal that no state satisfies
IsTerminalNever(s) == FALSE

\* IsTerminal without the error state
IsTerminalSuccessOnly(s) == s = "success"

\* IsTerminal with the running state added
IsTerminalOrRunning(s) == s \in {"success", "error", "running"}

\* if _task.info.state in [vim.TaskInfo.State.success, vim.TaskInfo.State.error]
IsTerminal(s) == s \in {"success", "error"}

\* what a request that succeeded does to the VM's power state
Effect(states, task) ==
    CASE task.kind = "Destroy" -> [states EXCEPT ![task.vm] = "destroyed"]
      [] task.kind = "PowerOff" -> [states EXCEPT ![task.vm] = "poweredOff"]
      [] task.kind = "PowerOn" -> [states EXCEPT ![task.vm] = "poweredOn"]
      [] OTHER -> states

\* _task = _vm.<Request>(); _state = self._waitOnTask(_task): the task is created
\* in state queued and _waitOnTask reaches  for _i in range(_wait)
Submit(v, kind, after) ==
    /\ tasks' = Append(tasks, [vm |-> v, kind |-> kind, state |-> "queued"])
    /\ wait' = [task |-> Len(tasks) + 1, seen |-> <<>>, sleeps |-> 0,
                exit |-> IF batch.W = 0 THEN "budget" ELSE "none", after |-> after]
    /\ bpc' = IF batch.W = 0 THEN "result" ELSE "poll"

\* the loop goes on to the next VM of _objVms
NextVm ==
    /\ batch' = [batch EXCEPT !.todo = Tail(@)]
    /\ bpc' = IF Tail(batch.todo) = <<>> THEN "done" ELSE "loop"

\* one of _destroy, _power, _snapshot, _change is called: the VMs are resolved
BatchStart(op, order, W, hotadd) ==
    /\ bpc = "idle"
    /\ batch' = [op |-> op, objVms |-> {order[i] : i \in 1..Len(order)}, todo |-> order,
                 W |-> W, hotadd |-> hotadd]
    /\ bpc' = IF order = <<>> THEN "done" ELSE "loop"
    /\ UNCHANGED <<vmState, tasks, wait, outcome, timedOut, visited>>
    /\ UNCHANGED notTaskVars

\* DestroyRefused that lets every VM through
DestroyRefusedNever(powerState) == FALSE

\* line 3912: 'Remove VM Failed -- ... is powered on.'
DestroyRefused(powerState) == powerState = "poweredOn"

\* _destroy, one iteration
Destroy ==
    LET v == Head(batch.todo)
    IN  /\ bpc = "loop"
        /\ batch.op = "destroy"
        /\ visited' = visited \cup {v}
        /\ IF DestroyRefused(vmState[v])
           THEN /\ bpc' = "done"
                /\ UNCHANGED <<tasks, wait>>
           ELSE Submit(v, "Destroy", "next")
        /\ UNCHANGED <<vmState, batch, outcome, timedOut>>
        /\ UNCHANGED notTaskVars

\* _power with action start or stop, one iteration
Power ==
    LET v == Head(batch.todo)
    IN  /\ bpc = "loop"
        /\ batch.op \in {"start", "stop"}
        /\ visited' = visited \cup {v}
        /\ IF batch.op = "start" /\ vmState[v] = "poweredOff"
           THEN Submit(v, "PowerOn", "next") /\ UNCHANGED batch
           ELSE IF batch.op = "stop" /\ vmState[v] = "poweredOn"
           THEN Submit(v, "PowerOff", "next") /\ UNCHANGED batch
           ELSE NextVm /\ UNCHANGED <<tasks, wait>>
        /\ UNCHANGED <<vmState, outcome, timedOut>>
        /\ UNCHANGED notTaskVars

\* _snapshot with action add, one iteration
Snapshot ==
    LET v == Head(batch.todo)
    IN  /\ bpc = "loop"
        /\ batch.op = "snapshot"
        /\ visited' = visited \cup {v}
        /\ Submit(v, "CreateSnapshot", "next")
        /\ UNCHANGED <<vmState, batch, outcome, timedOut>>
        /\ UNCHANGED notTaskVars

\* _change with a description, lines 3609-3627
Change ==
    LET v == Head(batch.todo)
    IN  /\ bpc = "loop"
        /\ batch.op = "change"
        /\ visited' = visited \cup {v}
        /\ Submit(v, "Reconfigure", "poweredOff")
        /\ UNCHANGED <<vmState, batch, outcome, timedOut>>
        /\ UNCHANGED notTaskVars

\* _change, lines 3665-3682: if VM is powered on, skip the rest; else enable hot add
ChangePoweredOff ==
    LET v == Head(batch.todo)
    IN  /\ bpc = "poweredOff"
        /\ IF vmState[v] # "poweredOn" /\ batch.hotadd
           THEN Submit(v, "Reconfigure", "next") /\ UNCHANGED batch
           ELSE NextVm /\ UNCHANGED <<tasks, wait>>
        /\ UNCHANGED <<vmState, outcome, timedOut, visited>>
        /\ UNCHANGED notTaskVars

\* _waitOnTask, lines 2362-2365: one poll of _task.info.state
WaitPoll ==
    LET s == tasks[wait.task].state
    IN  /\ bpc = "poll"
        /\ wait' = [wait EXCEPT !.seen = Append(@, s),
                                !.exit = IF IsTerminal(s) THEN "break" ELSE @]
        /\ bpc' = IF IsTerminal(s) THEN "result" ELSE "sleep"
        /\ UNCHANGED <<vmState, tasks, batch, outcome, timedOut, visited>>
        /\ UNCHANGED notTaskVars

\* _waitOnTask, line 2366: time.sleep(1), then the next _i of range(_wait)
WaitSleep ==
    /\ bpc = "sleep"
    /\ wait' = [wait EXCEPT !.sleeps = @ + 1,
                            !.exit = IF wait.sleeps + 1 = batch.W THEN "budget" ELSE @]
    /\ bpc' = IF wait.sleeps + 1 = batch.W THEN "result" ELSE "poll"
    /\ UNCHANGED <<vmState, tasks, batch, outcome, timedOut, visited>>
    /\ UNCHANGED notTaskVars

\* the record of a _waitOnTask call that returns state
Returned(state) ==
    [task |-> wait.task, W |-> batch.W, seen |-> wait.seen, sleeps |-> wait.sleeps,
     exit |-> wait.exit, state |-> state]

\* WaitResult that submits the request again when the task ended in error
WaitResultRetry ==
    /\ bpc = "result"
    /\ outcome' = Returned(tasks[wait.task].state)
    /\ timedOut' = IF wait.exit = "budget" /\ tasks[wait.task].state \in {"queued", "running"}
                   THEN timedOut \cup {wait.task} ELSE timedOut
    /\ IF tasks[wait.task].state = "error"
       THEN /\ tasks' = Append(tasks, [tasks[wait.task] EXCEPT !.state = "queued"])
            /\ wait' = [wait EXCEPT !.task = Len(tasks) + 1, !.seen = <<>>, !.sleeps = 0]
            /\ bpc' = IF batch.W = 0 THEN "result" ELSE "poll"
            /\ UNCHANGED batch
       ELSE /\ wait' = NoWait
            /\ IF wait.after = "next" THEN NextVm ELSE bpc' = wait.after /\ UNCHANGED batch
            /\ UNCHANGED tasks
    /\ UNCHANGED <<vmState, visited>>
    /\ UNCHANGED notTaskVars

\* _waitOnTask, lines 2371-2383: _state = _task.info.state is read again and
\* returned; the caller goes on
WaitResult ==
    /\ bpc = "result"
    /\ outcome' = Returned(tasks[wait.task].state)
    /\ timedOut' = IF wait.exit = "budget" /\ tasks[wait.task].state \in {"queued", "running"}
                   THEN timedOut \cup {wait.task} ELSE timedOut
    /\ wait' = NoWait
    /\ IF wait.after = "next" THEN NextVm ELSE bpc' = wait.after /\ UNCHANGED batch
    /\ UNCHANGED <<vmState, tasks, visited>>
    /\ UNCHANGED notTaskVars

\* the remote side: a task goes from queued to running, from running to success or error
RemoteStep ==
    /\ \E t \in 1..Len(tasks) :
          /\ tasks[t].state \in {"queued", "running"}
          /\ \E s \in (IF tasks[t].state = "queued" THEN {"running"} ELSE {"success", "error"}) :
                /\ tasks' = [tasks EXCEPT ![t].state = s]
                /\ vmState' = IF s = "success" THEN Effect(vmState, tasks[t]) ELSE vmState
    /\ UNCHANGED <<bpc, batch, wait, outcome, timedOut, visited>>
    /\ UNCHANGED notTaskVars

InitTask ==
    /\ vmState \in [VMs -> PowerStates]
    /\ tasks = <<>>
    /\ bpc = "idle"
    /\ batch = NoBatch
    /\ wait = NoWait
    /\ outcome = NoOutcome
    /\ timedOut = {}
    /\ visited = {}
    /\ IdleTag
    /\ IdleRes
    /\ vm = [powerState |-> "poweredOff", numCpu |-> 1, memorySizeMB |-> MBperGB, disks |-> <<>>]
    /\ last = NoCall
    /\ pending = None

VmOrders == UNION {Perms(S) : S \in SUBSET VMs}

NextTask ==
    \/ \E op \in BatchOps, order \in VmOrders, W \in WaitArgs, hotadd \in BOOLEAN :
          BatchStart(op, order, W, hotadd)
    \/ Destroy
    \/ Power
    \/ Snapshot
    \/ Change
    \/ ChangePoweredOff
    \/ WaitPoll
    \/ WaitSleep
    \/ WaitResult
    \/ RemoteStep

SpecTask == InitTask /\ [][NextTask]_vars

\* ------------------------------------------------- batch and supervisor: properties

WaitPcs == {"poll", "sleep", "result"}
Waiting == bpc \in WaitPcs
NonTerminal == {t \in 1..Len(tasks) : tasks[t].state \in {"queued", "running"}}

\* what is common to C3 as stated and as amended: one poll per one-second sleep,
\* no sleep after a poll that observed success or error, and the loop left after
\* W sleeps when no poll observed a terminal state
C3_Loop ==
    /\ Waiting =>
          /\ Len(wait.seen) <= batch.W
          /\ wait.sleeps <= batch.W
          /\ bpc = "poll" => (Len(wait.seen) = wait.sleeps /\ wait.sleeps < batch.W)
          /\ bpc = "sleep" => (Len(wait.seen) = wait.sleeps + 1 /\ wait.sleeps < batch.W)
          /\ \A k \in 1..Len(wait.seen) :
                wait.seen[k] \in {"success", "error"} => (k = Len(wait.seen) /\ bpc = "result")
    /\ outcome # NoOutcome =>
          /\ \A k \in 1..(Len(outcome.seen) - 1) : outcome.seen[k] \notin {"success", "error"}
          /\ IF outcome.seen # <<>> /\ outcome.seen[Len(outcome.seen)] \in {"success", "error"}
             THEN /\ outcome.exit = "break"
                  /\ outcome.sleeps = Len(outcome.seen) - 1
                  /\ outcome.state = outcome.seen[Len(outcome.seen)]
             ELSE /\ outcome.exit = "budget"
                  /\ outcome.sleeps = outcome.W
                  /\ Len(outcome.seen) = outcome.W

\* C3 (as stated): _waitOnTask polls once per one-second interval, leaves the
\* loop without a further sleep at the first poll that observes success or error,
\* and, when no poll within the budget observes a terminal state, leaves after W
\* intervals and yields the timed-out outcome, neither success nor error.
C3_SupervisorOutcome ==
    /\ C3_Loop
    /\ (outcome # NoOutcome /\ outcome.exit = "budget") =>
          outcome.state \notin {"success", "error"}

\* C3 (amended): as above, but after the budget is exhausted the state returned is
\* the one read once more after the loop: the timed-out outcome, or success or
\* error when the task ended during the last sleep (it is then the task's state).
C3_SupervisorOutcomeAmended ==
    /\ C3_Loop
    /\ (outcome # NoOutcome /\ outcome.exit = "budget") =>
          /\ outcome.state \in {"success", "error"} => tasks[outcome.task].state = outcome.state
          /\ outcome.state \in {"queued", "running"} => outcome.task \in timedOut

C3_Witness ==
    /\ outcome # NoOutcome
    /\ outcome.exit = "budget"
    /\ outcome.W >= 2
    /\ outcome.state = "running"

\* C4 (as stated): at most one remote operation submitted by the tool is
\* outstanding (queued or running) at any moment of a batch run.
C4_AtMostOneOutstanding == Cardinality(NonTerminal) <= 1

\* C4 (amended): the VMs are processed one at a time and at most one task is under
\* supervision: every task that is still queued or running is the one _waitOnTask is
\* waiting on, or one whose wait budget ran out.
C4_OneSupervised ==
    /\ \A t \in NonTerminal : (Waiting /\ wait.task = t) \/ t \in timedOut
    /\ Waiting => wait.task = Len(tasks)
    /\ \A i, j, k \in 1..Len(tasks) :
          (i < j /\ j < k /\ tasks[i].vm = tasks[k].vm) => tasks[j].vm = tasks[i].vm

C4_Witness ==
    /\ Cardinality(NonTerminal) >= 2
    /\ Waiting

\* C5: a precondition violation, a task error or a timeout on one VM ends the
\* processing of that VM only: when the batch is over every resolved VM has been
\* taken up by the loop.
C5_EveryVmProcessed == bpc = "done" => visited = batch.objVms

\* C6: once a request is submitted _waitOnTask only reads the task state: none of
\* its steps submits a request, changes a task or changes a VM, whatever it returns.
C6_SupervisorOnlyReads ==
    [][(Waiting /\ (bpc' # bpc \/ wait' # wait)) =>
          (tasks' = tasks /\ vmState' = vmState)]_vars

\* C29: no Destroy request is ever submitted for a VM that is observed powered on
\* at the moment _destroy processes it.
C29_NoDestroyOfPoweredOn ==
    [][(Len(tasks') = Len(tasks) + 1 /\ tasks'[Len(tasks')].kind = "Destroy") =>
          vmState[tasks'[Len(tasks')].vm] # "poweredOn"]_vars

\* _destroy has removed one VM and has ended at the next, which was powered on and
\* has no Destroy request
C29_Witness ==
    /\ bpc = "done"
    /\ batch.op = "destroy"
    /\ batch.todo # <<>>
    /\ Head(batch.todo) \in visited
    /\ vmState[Head(batch.todo)] = "poweredOn"
    /\ \A t \in 1..Len(tasks) : tasks[t].kind = "Destroy" => tasks[t].vm # Head(batch.todo)
    /\ \E t \in 1..Len(tasks) : tasks[t].kind = "Destroy" /\ tasks[t].vm \in batch.objVms

\* after a timeout the remote operation still reached success
C6_Witness ==
    /\ outcome # NoOutcome
    /\ outcome.exit = "budget"
    /\ outcome.state \in {"queued", "running"}
    /\ tasks[outcome.task].state = "success"

\* ================================================= inventory resolver

MaxNames == 2        \* most name tokens in one resolution

\* the managed objects of the inventory
ObjIds == {"o1", "o2"}

\* obj._moId
MoId(o) == IF o = "o1" THEN <<"m", "1">> ELSE <<"m", "2">>

\* the names the objects of the model bear; names are not unique in an inventory
\* (two VMs in different folders, two networks in different datacenters)
ObjNames ==
    [o1 |-> {<<"P">>, <<"P", "b">>, <<"m", "2">>},
     o2 |-> {<<"P">>, <<"P", "b">>, <<"b", "P">>}]

\* one object as the property collector returns it
Obj(o, name) == [id |-> o, name |-> name, moId |-> MoId(o)]

Inventories ==
    {<<Obj("o1", n1), Obj("o2", n2)>> : n1 \in ObjNames.o1, n2 \in ObjNames.o2}
    \cup
    {<<Obj("o2", n2), Obj("o1", n1)>> : n1 \in ObjNames.o1, n2 \in ObjNames.o2}

\* the name tokens a caller may pass
RawNames == {<<"P">>, <<"p", "b">>, <<"m", "1">>, <<"m", "2">>}
NameArgs == {None} \cup {Some(T) : T \in {T \in SUBSET RawNames : Cardinality(T) \in 1..MaxNames}}

\* the match argument of a caller: None, True or False
MatchArgs == {None, Some(TRUE), Some(FALSE)}

\* args of the command: <<hasattr(args, 'match'), args.match>>; -m / --match is
\* store_true with default None
ArgsMatch == {<<FALSE, None>>, <<TRUE, None>>, <<TRUE, Some(TRUE)>>}

\* _toList on the names of a call: None if there is none, else the tokens lower-cased
Names(tokens) == IF tokens = None THEN None ELSE Some(ToList(Val(tokens)))

\* _match is not None and _match
Truthy(m) == m # None /\ Val(m)

\* line 2062: args.match replaces the caller's match when args has the attribute
\* and the caller's match is not None
EffectiveMatch(hasMatch, argsMatch, match) ==
    IF hasMatch /\ match # None THEN argsMatch ELSE match

\* Kept without the comparison with the identifier
KeptByNameOnly(o, names, match) ==
    IF names = None
    THEN TRUE
    ELSE IF Truthy(match)
         THEN Lower(o.name) \in Val(names)
         ELSE \E n \in Val(names) : In(Lower(n), Lower(o.name))

\* lines 2143-2157: the object passes the name filter ('match name' when _match is
\* true, 'partial/substring search' otherwise; everything when there are no names)
Kept(o, names, match) ==
    IF names = None
    THEN TRUE
    ELSE IF Truthy(match)
         THEN Lower(o.name) \in Val(names) \/ o.moId \in Val(names)
         ELSE \E n \in Val(names) : In(Lower(n), Lower(o.name)) \/ Lower(n) = Lower(o.moId)

\* _getObjects from line 2141 on: _objects[_name] = _object for every object kept, in
\* the order retrieved, so of the kept objects of one name the last one stays
GetObjects(objs, names, match) ==
    {objs[i].id : i \in {i \in 1..Len(objs) :
        /\ Kept(objs[i], names, match)
        /\ \A j \in (i + 1)..Len(objs) :
              ~(Kept(objs[j], names, match) /\ objs[j].name = objs[i].name)}}

\* one call of _getObjects with names: the locals after line 2071 and the result
Resolve(tokens, hasMatch, argsMatch, match) ==
    /\ rcall.op \in {"none", "resolve"}
    /\ rcall' = [op |-> "resolve",
                 names |-> Names(tokens),
                 exact |-> Names(tokens) # None
                           /\ Truthy(EffectiveMatch(hasMatch, argsMatch, match)),
                 result |-> GetObjects(inv, Names(tokens),
                                       EffectiveMatch(hasMatch, argsMatch, match))]
    /\ rprev' = rcall
    /\ UNCHANGED <<inv, snap, nics>>
    /\ UNCHANGED notResVars

\* the remote side renames an object: the results of earlier resolutions are of
\* an inventory that is no more
RemoteRename(i, name) ==
    /\ rcall.op \in {"none", "resolve", "nic"}
    /\ name # inv[i].name
    /\ inv' = [inv EXCEPT ![i].name = name]
    /\ rcall' = NoResCall
    /\ rprev' = NoResCall
    /\ UNCHANGED <<snap, nics>>
    /\ UNCHANGED notResVars

InitResolve ==
    /\ inv \in Inventories
    /\ snap = <<>>
    /\ nics = <<>>
    /\ rcall = NoResCall
    /\ rprev = NoResCall
    /\ IdleDelta
    /\ IdleTag
    /\ IdleTask

NextResolve ==
    \/ \E tokens \in NameArgs, args \in ArgsMatch, match \in MatchArgs :
          Resolve(tokens, args[1], args[2], match)
    \/ \E i \in 1..Len(inv) : \E name \in ObjNames[inv[i].id] : RemoteRename(i, name)

SpecResolve == InitResolve /\ [][NextResolve]_vars

\* ------------------------------------------------- resolver: properties

\* the object matches the tokens: in exact mode its lower-cased name or its
\* identifier is one of them, in substring mode one of them is contained in its
\* lower-cased name or is its identifier
C13_Matches(o, names, exact) ==
    IF exact
    THEN \E n \in names : n = Lower(o.name) \/ n = o.moId
    ELSE \E n \in names : In(n, Lower(o.name)) \/ n = o.moId

\* C13: for every inventory and token list, _getObjects returns exactly the
\* objects that match the tokens in the mode of the call: no matching object is
\* missing from the result and no other object is in it.
C13_ExactlyTheMatching ==
    (rcall.op = "resolve" /\ rcall.names # None) =>
        rcall.result =
            {inv[i].id : i \in {i \in 1..Len(inv) :
                                   C13_Matches(inv[i], Val(rcall.names), rcall.exact)}}

\* C14: with substring matching and an unchanged inventory, resolving with a
\* superset of the tokens of an earlier resolution returns a superset of its result.
C14_SubstringMonotonic ==
    ( /\ rprev.op = "resolve"
      /\ rcall.op = "resolve"
      /\ rprev.names # None
      /\ rcall.names # None
      /\ ~rprev.exact
      /\ ~rcall.exact
      /\ Val(rprev.names) \subseteq Val(rcall.names) ) =>
        rprev.result \subseteq rcall.result

\* the last two resolutions were exact, the first by the name of inv[i] and the
\* second by its identifier
C15_ByNameThenById(i) ==
    /\ rprev.op = "resolve"
    /\ rcall.op = "resolve"
    /\ rprev.exact
    /\ rcall.exact
    /\ rprev.names = Some({Lower(inv[i].name)})
    /\ rcall.names = Some({inv[i].moId})

\* no other object bears the name of inv[i] (whatever the case), has it as its
\* identifier, or is named as the identifier of inv[i]
C15_Unambiguous(i) ==
    \A j \in 1..Len(inv) :
        j # i =>
            /\ Lower(inv[j].name) # Lower(inv[i].name)
            /\ inv[j].moId # Lower(inv[i].name)
            /\ Lower(inv[j].name) # inv[i].moId

\* C15 (as stated): with exact matching, for every object of the inventory,
\* resolving by its exact name and resolving by its exact identifier return the
\* same result, a singleton holding that object.
C15_NameAndIdAgree ==
    \A i \in 1..Len(inv) :
        C15_ByNameThenById(i) =>
            (rprev.result = {inv[i].id} /\ rcall.result = {inv[i].id})

\* C15 (amended): the same, for every object whose name no other object bears and
\* whose name and identifier are not the identifier and the name of another object.
C15_NameAndIdAgreeWhenUnambiguous ==
    \A i \in 1..Len(inv) :
        (C15_ByNameThenById(i) /\ C15_Unambiguous(i)) =>
            (rprev.result = {inv[i].id} /\ rcall.result = {inv[i].id})

C15_Witness ==
    \E i \in 1..Len(inv) :
        /\ C15_ByNameThenById(i)
        /\ C15_Unambiguous(i)
        /\ rcall.result = {inv[i].id}

\* ================================================= _addVmNic

MaxNics == 2         \* most adapters the model adds to the VM

\* the VLAN ids of the port groups of the model
VlanIds == {7, 8}

\* a port group as the property collector returns it
NetObj(o, name, vlanId) == [id |-> o, name |-> name, moId |-> MoId(o), vlanId |-> vlanId]

NetInventories ==
    {<<NetObj("o1", n1, v1), NetObj("o2", n2, v2)>> :
        n1 \in ObjNames.o1, n2 \in ObjNames.o2, v1 \in {7}, v2 \in VlanIds}
    \cup
    {<<NetObj("o2", n2, v2), NetObj("o1", n1, v1)>> :
        n1 \in ObjNames.o1, n2 \in ObjNames.o2, v1 \in {7}, v2 \in VlanIds}

\* -N / --network and -V / --vlan of the add command (mutually exclusive)
NetworkArgs == {<<"P">>, <<"p", "b">>, <<"b">>, <<"m", "1">>, <<"8">>, <<"9">>}
NicArgs ==
    {[network |-> Some(n), vlanId |-> None] : n \in NetworkArgs}
    \cup
    {[network |-> None, vlanId |-> Some(v)] : v \in VlanIds}

DigitValue(c) ==
    CASE c = "0" -> 0 [] c = "1" -> 1 [] c = "2" -> 2 [] c = "3" -> 3 [] c = "4" -> 4
      [] c = "5" -> 5 [] c = "6" -> 6 [] c = "7" -> 7 [] c = "8" -> 8 [] c = "9" -> 9

\* str.isdigit()
IsDigit(s) ==
    /\ s # <<>>
    /\ \A i \in 1..Len(s) : s[i] \in {"0", "1", "2", "3", "4", "5", "6", "7", "8", "9"}

\* int(s) for a string of digits
RECURSIVE IntOf(_)
IntOf(s) ==
    IF s = <<>> THEN 0 ELSE IntOf(SubSeq(s, 1, Len(s) - 1)) * 10 + DigitValue(s[Len(s)])

\* the object of the inventory with this id
ObjOf(objs, o) == objs[CHOOSE i \in 1..Len(objs) : objs[i].id = o]

\* _getNetworkObjects for the add command (args has no 'match' and no 'pgkey'): a
\* network argument of digits is a VLAN id; the networks are resolved by name, then
\* filtered by VLAN id
GetNetworkObjects(objs, network, vlanId, match) ==
    LET byNumber == vlanId = None /\ network # None /\ IsDigit(Val(network))
        vlan == IF byNumber THEN Some(IntOf(Val(network))) ELSE vlanId
        names == IF byNumber \/ network = None THEN None ELSE Some({Lower(Val(network))})
        objNetworks == GetObjects(objs, names, EffectiveMatch(FALSE, None, match))
    IN  IF vlan # None
        THEN {o \in objNetworks : ObjOf(objs, o).vlanId = Val(vlan)}
        ELSE objNetworks

\* NicFinal without the second search
NicFinalExactOnly(exact, substring) == exact

\* lines 3392-3395: try exact match first, if not found broaden search
NicFinal(exact, substring) == IF Cardinality(exact) = 0 THEN substring ELSE exact

\* line 3396: _addVmNic goes on to Reconfigure
NicSubmits(final) == ~(Cardinality(final) # 1)

\* _addVmNic for the VM of the model
AddVmNic(network, vlanId) ==
    LET exact == GetNetworkObjects(inv, network, vlanId, Some(TRUE))
        substring == GetNetworkObjects(inv, network, vlanId, Some(FALSE))
        final == NicFinal(exact, substring)
    IN  /\ rcall.op \in {"none", "nic"}
        /\ Len(nics) < MaxNics
        /\ UNCHANGED <<inv, snap, rprev>>
        /\ UNCHANGED notResVars
        /\ IF NicSubmits(final)
           THEN \E dvs \in final, st \in TaskStates :
                  /\ rcall' = [op |-> "nic", network |-> network, vlanId |-> vlanId,
                               retried |-> Cardinality(exact) = 0, final |-> final,
                               nicsBefore |-> nics,
                               submitted |-> TRUE, portgroup |-> Some(dvs), state |-> Some(st)]
                  /\ \E added \in (CASE st = "success" -> {TRUE}
                                     [] st = "error" -> {FALSE}
                                     [] OTHER -> BOOLEAN) :
                        nics' = IF added THEN Append(nics, dvs) ELSE nics
           ELSE /\ rcall' = [op |-> "nic", network |-> network, vlanId |-> vlanId,
                             retried |-> Cardinality(exact) = 0, final |-> final,
                             nicsBefore |-> nics,
                             submitted |-> FALSE, portgroup |-> None, state |-> None]
                /\ UNCHANGED nics

InitNic ==
    /\ inv \in NetInventories
    /\ snap = <<>>
    /\ nics = <<>>
    /\ rcall = NoResCall
    /\ rprev = NoResCall
    /\ IdleDelta
    /\ IdleTag
    /\ IdleTask

NextNic ==
    \/ \E a \in NicArgs : AddVmNic(a.network, a.vlanId)
    \/ \E i \in 1..Len(inv) : \E name \in ObjNames[inv[i].id] : RemoteRename(i, name)

SpecNic == InitNic /\ [][NextNic]_vars

\* ------------------------------------------------- _addVmNic: properties

\* the networks the argument of the last call resolves to in one match mode
C12_Resolved(match) == GetNetworkObjects(inv, rcall.network, rcall.vlanId, Some(match))

\* C12: _addVmNic resolves the network by exact match first and by substring match
\* only when the exact match yields nothing; it submits an attach request only
\* when the final result set holds exactly one network, and nothing when it holds
\* none or more than one.
C12_ExactThenSubstring ==
    rcall.op = "nic" =>
        /\ rcall.retried <=> C12_Resolved(TRUE) = {}
        /\ rcall.final = IF C12_Resolved(TRUE) # {} THEN C12_Resolved(TRUE) ELSE C12_Resolved(FALSE)
        /\ rcall.submitted <=> Cardinality(rcall.final) = 1
        /\ rcall.submitted => rcall.final = {Val(rcall.portgroup)}
        /\ ~rcall.submitted => (rcall.state = None /\ nics = rcall.nicsBefore)

\* the exact search found nothing, the substring search found one network
C12_Witness ==
    /\ rcall.op = "nic"
    /\ rcall.retried
    /\ rcall.submitted
    /\ nics # rcall.nicsBefore

\* ================================================= _snapshot

\* the snapshot ids of the model; a tree is a set of nodes [id, parent], parent 0
\* for a root; rootSnapshotList and childSnapshotList are in the order of creation
SnapIds == {1, 2, 3}

Trees ==
    {t \in SUBSET [id : SnapIds, parent : {0} \cup SnapIds] :
        /\ \A n, m \in t : n.id = m.id => n = m
        /\ \A n \in t : n.parent = 0 \/ (n.parent < n.id /\ \E m \in t : m.id = n.parent)}

\* First that takes the node created last
FirstNewest(S) == CHOOSE n \in S : \A m \in S : n.id >= m.id

\* the node of least id of a set of nodes: the first of the list
First(S) == CHOOSE n \in S : \A m \in S : n.id <= m.id

\* _ss.childSnapshotList; for id 0, _vm.snapshot.rootSnapshotList
ChildSnapshotList(t, id) == {n \in t : n.parent = id}

\* FindById that looks at the root only
FindByIdRootOnly(t, ss, id) == IF ss.id = id THEN Some(ss.id) ELSE None

\* lines 4279-4289: the walk from _ss down the first child of each node; the id of
\* the node found, or None
RECURSIVE FindById(_, _, _)
FindById(t, ss, id) ==
    IF ss.id = id
    THEN Some(ss.id)
    ELSE IF ChildSnapshotList(t, ss.id) = {}
         THEN None
         ELSE FindById(t, First(ChildSnapshotList(t, ss.id)), id)

\* lines 4277-4289: _ss, None when no id is given
Ss(t, id) == IF id = None THEN None ELSE FindById(t, First(ChildSnapshotList(t, 0)), Val(id))

\* lines 4293-4318: the request _snapshot submits for one VM
Request(v, action, t, id) ==
    CASE action = "add" -> [vm |-> v, kind |-> "CreateSnapshot", node |-> None]
      [] action = "consolidate" -> [vm |-> v, kind |-> "ConsolidateDisks", node |-> None]
      [] action = "remove" ->
            IF id # None /\ Ss(t, id) # None
            THEN [vm |-> v, kind |-> "RemoveSnapshot_Task", node |-> Ss(t, id)]
            ELSE [vm |-> v, kind |-> "RemoveAllSnapshots", node |-> None]
      [] action = "revert" ->
            IF id # None /\ Ss(t, id) # None
            THEN [vm |-> v, kind |-> "RevertToSnapshot_Task", node |-> Ss(t, id)]
            ELSE [vm |-> v, kind |-> "RevertToCurrentSnapshot", node |-> None]

\* the node id and the nodes below it
RECURSIVE Subtree(_, _)
Subtree(t, id) ==
    {n \in t : n.id = id} \cup UNION {Subtree(t, c.id) : c \in ChildSnapshotList(t, id)}

\* the snapshot tree after the remote side has carried out a request; a new
\* snapshot becomes a child of the VM's current snapshot, here the node parent
Carried(t, req, parent) ==
    CASE req.kind = "CreateSnapshot" ->
            t \cup {[id |-> 1 + Cardinality({i \in SnapIds : \E n \in t : i <= n.id}),
                     parent |-> parent]}
      [] req.kind = "RemoveSnapshot_Task" -> t \ Subtree(t, Val(req.node))
      [] req.kind = "RemoveAllSnapshots" -> {}
      [] OTHER -> t

\* the filters of _getVmObjects that _snapshot sets: args.snapshot (only VMs with a
\* root snapshot) and args.consolidate (only VMs that need consolidation)
GetVmObjects(objs, names, hasMatch, argsMatch, match, snapshot, consolidate, trees, needed) ==
    {o \in GetObjects(objs, names, EffectiveMatch(hasMatch, argsMatch, match)) :
        /\ ~(snapshot # None /\ Val(snapshot) /\ trees[o] = {})
        /\ ~(snapshot # None /\ ~Val(snapshot) /\ trees[o] # {})
        /\ ~(consolidate # None /\ (o \in needed) # Val(consolidate))}

SnapshotNames == {{<<"P">>}, {<<"p", "b">>}, {<<"P">>, <<"p", "b">>}}
SnapshotIdArgs == {None} \cup {Some(i) : i \in SnapIds}

\* the command line of one snapshot action: -m / --match exists for snapshot and
\* consolidate, -I / --id for revert and rm-snapshot
SnapshotArgs ==
    {[action |-> a, names |-> T, match |-> m, id |-> None] :
        a \in {"add", "consolidate"}, T \in SnapshotNames, m \in {<<TRUE, None>>, <<TRUE, Some(TRUE)>>}}
    \cup
    {[action |-> a, names |-> T, match |-> <<FALSE, None>>, id |-> i] :
        a \in {"remove", "revert"}, T \in SnapshotNames, i \in SnapshotIdArgs}

\* the nodes a new snapshot of each VM can become a child of (the VM's current
\* snapshot, any node of its tree), 0 when the VM has no snapshot
Parents(targets, trees) ==
    {p \in [targets -> {0} \cup SnapIds] :
        \A o \in targets : IF trees[o] = {} THEN p[o] = 0 ELSE \E n \in trees[o] : n.id = p[o]}

\* the VMs _snapshot resolves: remove, revert and merge force the exact match and
\* the snapshot filter, consolidate sets the consolidate filter (lines 4254-4270)
SnapshotTargets(a, needed) ==
    GetVmObjects(inv, Some(ToList(a.names)), a.match[1], a.match[2],
                 IF a.action \in {"remove", "revert"} THEN Some(TRUE) ELSE None,
                 IF a.action \in {"remove", "revert"} THEN Some(TRUE) ELSE None,
                 IF a.action = "consolidate" THEN Some(TRUE) ELSE None,
                 snap, needed)

\* _snapshot: the VMs are resolved, then one request per VM; needed is the set of
\* VMs with runtime.consolidationNeeded, ok the VMs whose task succeeds, parent
\* the current snapshot of each VM
Snapshot_(a, needed) ==
    /\ rcall.op = "none"
    /\ a.action = "add" =>
          \A o \in SnapshotTargets(a, needed) : \A n \in snap[o] : n.id + 1 \in SnapIds
    /\ \E order \in Perms(SnapshotTargets(a, needed)) :
       \E ok \in SUBSET SnapshotTargets(a, needed) :
       \E parent \in (IF a.action = "add"
                       THEN Parents(SnapshotTargets(a, needed), snap)
                       ELSE {[o \in SnapshotTargets(a, needed) |-> 0]}) :
          LET requests == [k \in 1..Len(order) |->
                              Request(order[k], a.action, snap[order[k]], a.id)]
          IN  /\ rcall' = [op |-> "snapshot", action |-> a.action, names |-> ToList(a.names),
                           match |-> a.match[2], id |-> a.id, before |-> snap,
                           targets |-> SnapshotTargets(a, needed), requests |-> requests]
              /\ snap' = [o \in ObjIds |->
                            IF o \in ok
                            THEN Carried(snap[o],
                                         requests[CHOOSE k \in 1..Len(order) : order[k] = o],
                                         parent[o])
                            ELSE snap[o]]
    /\ UNCHANGED <<inv, nics, rprev>>
    /\ UNCHANGED notResVars

\* the call returns to its caller: its locals are gone
SnapshotReturn ==
    /\ rcall.op = "snapshot"
    /\ rcall' = NoResCall
    /\ UNCHANGED <<inv, snap, nics, rprev>>
    /\ UNCHANGED notResVars

InitSnapshot ==
    /\ inv \in {<<Obj("o1", <<"P">>), Obj("o2", n2)>> : n2 \in {<<"P", "b">>, <<"b", "P">>}}
    /\ snap \in [ObjIds -> Trees]
    /\ nics = <<>>
    /\ rcall = NoResCall
    /\ rprev = NoResCall
    /\ IdleDelta
    /\ IdleTag
    /\ IdleTask

NextSnapshot ==
    \/ \E a \in SnapshotArgs :
          \E needed \in (IF a.action = "consolidate" THEN SUBSET ObjIds ELSE {{}}) :
              Snapshot_(a, needed)
    \/ SnapshotReturn

SpecSnapshot == InitSnapshot /\ [][NextSnapshot]_vars

\* ------------------------------------------------- _snapshot: properties

\* the ids of the chain of a tree: its first root, then the first child of each node
RECURSIVE C16_ChainFrom(_, _)
C16_ChainFrom(t, n) ==
    {n.id} \cup (IF \E c \in t : c.parent = n.id
                 THEN C16_ChainFrom(t, First({c \in t : c.parent = n.id}))
                 ELSE {})

C16_Chain(t) == IF t = {} THEN {} ELSE C16_ChainFrom(t, First({n \in t : n.parent = 0}))

\* C16: for each resolved VM a snapshot remove or revert call submits exactly one
\* request: the by-id request on the found node when the given id is found in the
\* chain, the whole-history request (remove all snapshots, revert to the current
\* snapshot) when no id is given or the id is not found in the chain.
C16_OneRequestPerVm ==
    (rcall.op = "snapshot" /\ rcall.action \in {"remove", "revert"}) =>
        /\ Len(rcall.requests) = Cardinality(rcall.targets)
        /\ \A v \in rcall.targets :
              \E k \in 1..Len(rcall.requests) :
                 /\ rcall.requests[k].vm = v
                 /\ \A j \in 1..Len(rcall.requests) : rcall.requests[j].vm = v => j = k
                 /\ IF rcall.id # None /\ Val(rcall.id) \in C16_Chain(rcall.before[v])
                    THEN /\ rcall.requests[k].node = rcall.id
                         /\ rcall.requests[k].kind =
                               (IF rcall.action = "remove"
                                THEN "RemoveSnapshot_Task" ELSE "RevertToSnapshot_Task")
                    ELSE /\ rcall.requests[k].node = None
                         /\ rcall.requests[k].kind =
                               (IF rcall.action = "remove"
                                THEN "RemoveAllSnapshots" ELSE "RevertToCurrentSnapshot")

\* two VMs in one call: the id is found in the chain of one, below its root, and
\* is a node off the chain of the other
C16_Witness ==
    /\ rcall.op = "snapshot"
    /\ rcall.action = "remove"
    /\ rcall.id # None
    /\ \E v, w \in rcall.targets :
          /\ Val(rcall.id) \in C16_Chain(rcall.before[v])
          /\ \E n \in rcall.before[v] : n.id = Val(rcall.id) /\ n.parent # 0
          /\ Val(rcall.id) \notin C16_Chain(rcall.before[w])
          /\ \E n \in rcall.before[w] : n.id = Val(rcall.id)

\* C20: when -m / --match is given to the snapshot-create or the consolidate
\* action, the VMs are resolved by exact name match: a VM whose name only contains
\* a token as a proper substring is never targeted.
C20_MatchOptionIsExact ==
    ( /\ rcall.op = "snapshot"
      /\ rcall.action \in {"add", "consolidate"}
      /\ rcall.match = Some(TRUE) ) =>
        \A v \in rcall.targets :
            \E i \in 1..Len(inv) :
                /\ inv[i].id = v
                /\ (Lower(inv[i].name) \in rcall.names \/ inv[i].moId \in rcall.names)

\* ================================================= _change: -N / --new-name and -A / --append

MaxNameLen == 2      \* longest VM name at the start of a change command

ChangeNames == {{<<"P">>}, {<<"p", "b">>}, {<<"P">>, <<"p", "b">>}}
NewNameArgs == {None, Some(<<"b">>)}
AppendArgs == {None, Some(<<"S">>)}

\* _vm.name, read from the remote side
NameOf(objs, o) == ObjOf(objs, o).name

\* '{0}.{1}'.format(_vm.name, _append)
Appended(name, append) == name \o <<".">> \o append

\* the inventory after a Rename task of VM o, carried out or not
Renamed(objs, o, name, done) ==
    IF done
    THEN [i \in 1..Len(objs) |-> IF objs[i].id = o THEN [objs[i] EXCEPT !.name = name] ELSE objs[i]]
    ELSE objs

\* _change up to the loop: the arguments are read and the VMs resolved (the change
\* command has no -m / --match option; _getVmObjects is called with match=True)
ChangeStart(tokens, newName, append) ==
    /\ rcall.op = "none"
    /\ \A i \in 1..Len(inv) : Len(inv[i].name) <= MaxNameLen
    /\ \E order \in Perms(GetVmObjects(inv, Some(ToList(tokens)), FALSE, None, Some(TRUE),
                                       None, None, snap, {})) :
          rcall' = [op |-> "change", pc |-> IF order = <<>> THEN "done" ELSE "newName",
                    newNameArg |-> newName, append |-> append, newName |-> newName,
                    todo |-> order, objVms |-> {order[k] : k \in 1..Len(order)},
                    names |-> [o \in ObjIds |-> NameOf(inv, o)], log |-> <<>>]
    /\ UNCHANGED <<inv, snap, nics, rprev>>
    /\ UNCHANGED notResVars

\* lines 3611-3614: if _newName is not None, rename the VM to it
ChangeNewName ==
    /\ rcall.op = "change"
    /\ rcall.pc = "newName"
    /\ IF rcall.newName # None
       THEN /\ rcall' = [rcall EXCEPT !.pc = "append",
                                      !.log = Append(@, [vm |-> Head(rcall.todo),
                                                         name |-> Val(rcall.newName)])]
            /\ \E done \in BOOLEAN :
                  inv' = Renamed(inv, Head(rcall.todo), Val(rcall.newName), done)
       ELSE /\ rcall' = [rcall EXCEPT !.pc = "append"]
            /\ UNCHANGED inv
    /\ UNCHANGED <<snap, nics, rprev>>
    /\ UNCHANGED notResVars

\* lines 3616-3620: if _append is not None, _newName becomes the VM's name with the
\* suffix and the VM is renamed to it; then the next VM
ChangeAppend ==
    /\ rcall.op = "change"
    /\ rcall.pc = "append"
    /\ IF rcall.append # None
       THEN LET newName == Appended(NameOf(inv, Head(rcall.todo)), Val(rcall.append))
            IN  /\ rcall' = [rcall EXCEPT !.pc = IF Tail(rcall.todo) = <<>> THEN "done" ELSE "newName",
                                          !.newName = Some(newName),
                                          !.todo = Tail(@),
                                          !.log = Append(@, [vm |-> Head(rcall.todo),
                                                             name |-> newName])]
                /\ \E done \in BOOLEAN :
                      inv' = Renamed(inv, Head(rcall.todo), newName, done)
       ELSE /\ rcall' = [rcall EXCEPT !.pc = IF Tail(rcall.todo) = <<>> THEN "done" ELSE "newName",
                                      !.todo = Tail(@)]
            /\ UNCHANGED inv
    /\ UNCHANGED <<snap, nics, rprev>>
    /\ UNCHANGED notResVars

\* the call returns to its caller: its locals are gone
ChangeReturn ==
    /\ rcall.op = "change"
    /\ rcall.pc = "done"
    /\ rcall' = NoResCall
    /\ UNCHANGED <<inv, snap, nics, rprev>>
    /\ UNCHANGED notResVars

InitChange ==
    /\ inv \in Inventories
    /\ snap = <<>>
    /\ nics = <<>>
    /\ rcall = NoResCall
    /\ rprev = NoResCall
    /\ IdleDelta
    /\ IdleTag
    /\ IdleTask

NextChange ==
    \/ \E tokens \in ChangeNames, newName \in NewNameArgs, append \in AppendArgs :
          ChangeStart(tokens, newName, append)
    \/ ChangeNewName
    \/ ChangeAppend
    \/ ChangeReturn

SpecChange == InitChange /\ [][NextChange]_vars

\* ------------------------------------------------- _change: properties

\* C19: for change --append S over a list of VMs, each resolved VM receives exactly
\* one rename request, and the name requested for it is its own name before the
\* call followed by '.S'.
C19_AppendRenamesEachOnce ==
    ( /\ rcall.op = "change"
      /\ rcall.pc = "done"
      /\ rcall.newNameArg = None
      /\ rcall.append # None ) =>
        \A v \in rcall.objVms :
            \E k \in 1..Len(rcall.log) :
                /\ rcall.log[k].vm = v
                /\ \A j \in 1..Len(rcall.log) : rcall.log[j].vm = v => j = k
                /\ rcall.log[k].name = rcall.names[v] \o <<".">> \o Val(rcall.append)

\* ================================================= _getVmObjects: template and power filters

\* runtime.powerState of a VM
RuntimePowerStates == {"poweredOn", "poweredOff", "suspended"}

\* a VM or a template as the property collector returns it, with config.template
\* and runtime.powerState
VmObj(o, name, template, powerState) ==
    [id |-> o, name |-> name, moId |-> MoId(o), template |-> template, powerState |-> powerState]

VmInventories ==
    {<<VmObj("o1", n1, t1, s1), VmObj("o2", n2, t2, s2)>> :
        n1 \in {<<"P">>, <<"P", "b">>}, n2 \in {<<"P">>, <<"b", "P">>},
        t1 \in BOOLEAN, t2 \in BOOLEAN, s1 \in RuntimePowerStates, s2 \in RuntimePowerStates}
    \cup
    {<<VmObj("o2", n2, t2, s2), VmObj("o1", n1, t1, s1)>> :
        n1 \in {<<"P">>, <<"P", "b">>}, n2 \in {<<"P">>, <<"b", "P">>},
        t1 \in BOOLEAN, t2 \in BOOLEAN, s1 \in RuntimePowerStates, s2 \in RuntimePowerStates}

\* args.power of a list command: None, True (-1 / --on) or False (-0 / --off)
PowerArgs == {None, Some(TRUE), Some(FALSE)}

\* args.template: None, or True once _listTemplate has set it
TemplateArgs == {None, Some(TRUE)}

\* the names of a list command (nargs='*')
ListNames == {None, Some({<<"P">>}), Some({<<"p", "b">>})}

\* PowerFilter that keeps the named power state only
PowerFilterNamedStateOnly(power, powerState) ==
    \/ power = None
    \/ Val(power) /\ powerState = "poweredOn"
    \/ ~Val(power) /\ powerState = "poweredOff"

\* lines 2329-2332: the VM is not skipped by the power filter
PowerFilter(power, powerState) ==
    /\ ~(power # None /\ Val(power) /\ powerState = "poweredOff")
    /\ ~(power # None /\ ~Val(power) /\ powerState = "poweredOn")

\* lines 2303-2304 and 2316: without args.template only VMs are kept
TemplateFilter(template, isTemplate) ==
    LET t == IF template = None THEN Some(FALSE) ELSE template
    IN  ~(t # None /\ isTemplate # Val(t))

\* _getVmObjects with the template and power filters, the other filters unset
GetVmObjectsFiltered(objs, names, hasMatch, argsMatch, match, template, power) ==
    {o \in GetVmObjects(objs, names, hasMatch, argsMatch, match, None, None, <<>>, {}) :
        /\ TemplateFilter(template, ObjOf(objs, o).template)
        /\ PowerFilter(power, ObjOf(objs, o).powerState)}

\* _listVirtualMachine, line 2921: the VMs the listing shows (match=None, so the
\* names are resolved by substring)
ListVirtualMachine(tokens, template, power) ==
    /\ rcall.op \in {"none", "list"}
    /\ rcall' = [op |-> "list", names |-> Names(tokens), template |-> template,
                 power |-> power,
                 result |-> GetVmObjectsFiltered(inv, Names(tokens), TRUE, None, None,
                                                 template, power)]
    /\ UNCHANGED <<inv, snap, nics, rprev>>
    /\ UNCHANGED notResVars

\* the remote side: a VM changes its power state; the listing is of an inventory
\* that is no more
RemotePower(i, s) ==
    /\ rcall.op \in {"none", "list"}
    /\ s # inv[i].powerState
    /\ inv' = [inv EXCEPT ![i].powerState = s]
    /\ rcall' = NoResCall
    /\ UNCHANGED <<snap, nics, rprev>>
    /\ UNCHANGED notResVars

InitList ==
    /\ inv \in VmInventories
    /\ snap = <<>>
    /\ nics = <<>>
    /\ rcall = NoResCall
    /\ rprev = NoResCall
    /\ IdleDelta
    /\ IdleTag
    /\ IdleTask

NextList ==
    \/ \E tokens \in ListNames, template \in TemplateArgs, power \in PowerArgs :
          ListVirtualMachine(tokens, template, power)
    \/ \E i \in 1..Len(inv) : \E s \in RuntimePowerStates : RemotePower(i, s)

SpecList == InitList /\ [][NextList]_vars

\* ------------------------------------------------- template and power filters: properties

\* C21: with the power filter set to on (-1 / --on) every VM returned by
\* _getVmObjects is powered on, and with the filter set to off (-0 / --off) every
\* VM returned is powered off.
C21_PowerFilter ==
    (rcall.op = "list" /\ rcall.power # None) =>
        \A o \in rcall.result :
            ObjOf(inv, o).powerState = IF Val(rcall.power) THEN "poweredOn" ELSE "poweredOff"

\* ================================================= _clone and _backup

MaxClones == 2       \* most names on one clone or backup command line

\* the inventory before the command: a VM or template named P, and a VM
CloneInventories ==
    {<<VmObj("o1", <<"P">>, t1, "poweredOff"), VmObj("o2", n2, FALSE, "poweredOff")>> :
        t1 \in BOOLEAN, n2 \in {<<"b">>, <<"P", "b">>}}

\* the source argument: absent for backup
SourceArgs == {None, Some(<<"P">>), Some(<<"p">>)}

\* the names argument, as typed
CloneNames == {<<"P">>, <<"b">>, <<"v">>}
CloneNameArgs ==
    {f \in UNION {[1..n -> CloneNames] : n \in 1..MaxClones} :
        \A i, j \in 1..Len(f) : f[i] = f[j] => i = j}

\* '{name}.cloned.by.{username}.{ts}'
BackupName(name) == name \o <<".", "c">>

\* the new VM a Clone task that succeeded leaves in the inventory
CloneObj(objs, name) ==
    [id |-> IF Len(objs) = 2 THEN "c1" ELSE IF Len(objs) = 3 THEN "c2" ELSE "c3",
     name |-> name,
     moId |-> IF Len(objs) = 2 THEN <<"m", "3">> ELSE IF Len(objs) = 3 THEN <<"m", "4">>
                                                  ELSE <<"m", "5">>,
     template |-> FALSE, powerState |-> "poweredOff"]

\* _getVmObjects(names, match=True) as the clone command calls it: args has no
\* 'match', 'template' or 'power'
CloneResolve(objs, tokens) ==
    GetVmObjectsFiltered(objs, Some(ToList(tokens)), FALSE, None, Some(TRUE), None, None)

\* the keys of a dict _getVmObjects returned
Keys(objs, ids) == {NameOf(objs, o) : o \in ids}

\* dict[key]['id']; the key is there
Item(objs, ids, key) == CHOOSE o \in ids : NameOf(objs, o) = key

\* line 3822: the source was resolved
SourceFound(objSrcVms) == ~(Cardinality(objSrcVms) # 1)

\* PowersOn that does not look at the state of the Clone task
PowersOnAnyState(state, objClonedVms, source) ==
    /\ ~(Cardinality(objClonedVms) # 1)
    /\ ~(source = None)

\* lines 3858, 3865, 3873: the loop of _clone reaches the PowerOn of line 3894
PowersOn(state, objClonedVms, source) ==
    /\ ~(state # "success")
    /\ ~(Cardinality(objClonedVms) # 1)
    /\ ~(source = None)

\* the loop goes on to the next name
CloneContinue(log) ==
    rcall' = [rcall EXCEPT !.pc = IF Tail(rcall.todo) = <<>> THEN "done" ELSE "loop",
                           !.todo = Tail(@), !.log = log, !.cur = None]

\* _clone, lines 3803-3837: the source and the VMs that bear the names are resolved
CloneStart(source, names, includeTag) ==
    LET objSrcVms == IF source = None THEN {} ELSE CloneResolve(inv, {Val(source)})
        objVms == CloneResolve(inv, {names[k] : k \in 1..Len(names)})
        call == [op |-> "clone", pc |-> "loop", source |-> source, names |-> names,
                 includeTag |-> includeTag, before |-> inv,
                 objSrcVm |-> None, objVms |-> Keys(inv, objVms), todo |-> names,
                 cur |-> None, log |-> <<>>]
    IN  /\ rcall.op = "none"
        /\ Len(inv) = 2
        /\ IF source # None /\ ~SourceFound(objSrcVms)
           THEN rcall' = [call EXCEPT !.pc = "done", !.todo = <<>>]
           ELSE IF source # None /\ Val(source) \notin Keys(inv, objSrcVms)
           THEN rcall' = [call EXCEPT !.pc = "KeyError", !.todo = <<>>]
           ELSE rcall' = [call EXCEPT !.pc = "loop",
                              !.objSrcVm = IF source = None THEN None
                                           ELSE Some(Item(inv, objSrcVms, Val(source)))]
        /\ UNCHANGED <<inv, snap, nics, rprev>>
        /\ UNCHANGED notResVars

\* _clone, lines 3838-3859: one name of the loop up to the return of _cloneVm; the
\* Clone task is waited for and its state returned, the new VM is in the inventory
\* if the task succeeded
CloneVm ==
    LET n == Head(rcall.todo)
        backup == rcall.source = None
        name == IF backup THEN BackupName(n) ELSE n
    IN  /\ rcall.op = "clone"
        /\ rcall.pc = "loop"
        /\ UNCHANGED <<snap, nics, rprev>>
        /\ UNCHANGED notResVars
        /\ IF (backup /\ n \notin rcall.objVms) \/ name \in rcall.objVms
           THEN CloneContinue(rcall.log) /\ UNCHANGED inv
           ELSE LET src == IF backup
                           THEN CHOOSE o \in {inv[i].id : i \in 1..Len(inv)} : NameOf(inv, o) = n
                           ELSE Val(rcall.objSrcVm)
                IN  \E state \in TaskStates :
                    \E done \in (IF state = "success" THEN {TRUE}
                                 ELSE IF state = "error" THEN {FALSE} ELSE BOOLEAN) :
                       /\ inv' = IF done THEN Append(inv, CloneObj(inv, name)) ELSE inv
                       /\ rcall' = [rcall EXCEPT
                            !.pc = "find",
                            !.cur = Some([name |-> name, state |-> state]),
                            !.log = Append(@, [kind |-> "Clone", src |-> src, name |-> name,
                                               state |-> state])]

\* the remote side: a new VM is removed while _clone is at work
RemoteRemove ==
    /\ rcall.op = "clone"
    /\ rcall.pc = "find"
    /\ Len(inv) > 2
    /\ inv[Len(inv)].name = Val(rcall.cur).name
    /\ inv' = SubSeq(inv, 1, Len(inv) - 1)
    /\ UNCHANGED <<snap, nics, rcall, rprev>>
    /\ UNCHANGED notResVars

\* _clone, lines 3858-3897: the state of the Clone task is looked at, the new VM is
\* resolved by its name, the tags of the source are added to it and it is powered on
CloneFind ==
    LET cur == Val(rcall.cur)
        objClonedVms == CloneResolve(inv, {cur.name})
        found == [kind |-> "Resolved", name |-> cur.name, vms |-> objClonedVms]
        log == IF cur.state = "success" THEN Append(rcall.log, found) ELSE rcall.log
    IN  /\ rcall.op = "clone"
        /\ rcall.pc = "find"
        /\ IF ~PowersOn(cur.state, objClonedVms, rcall.source)
           THEN CloneContinue(log)
           ELSE IF cur.name \notin Keys(inv, objClonedVms)
           THEN rcall' = [rcall EXCEPT !.pc = "KeyError", !.todo = <<>>, !.log = log]
           ELSE LET v == Item(inv, objClonedVms, cur.name)
                    tagged == IF rcall.includeTag
                              THEN Append(log, [kind |-> "AddVmTag", vm |-> v, name |-> cur.name])
                              ELSE log
                IN  CloneContinue(Append(tagged, [kind |-> "PowerOn", vm |-> v,
                                                  name |-> cur.name]))
        /\ UNCHANGED <<inv, snap, nics, rprev>>
        /\ UNCHANGED notResVars

InitClone ==
    /\ inv \in CloneInventories
    /\ snap = <<>>
    /\ nics = <<>>
    /\ rcall = NoResCall
    /\ rprev = NoResCall
    /\ IdleDelta
    /\ IdleTag
    /\ IdleTask

NextClone ==
    \/ \E source \in SourceArgs, names \in CloneNameArgs, includeTag \in BOOLEAN :
          CloneStart(source, names, includeTag)
    \/ CloneVm
    \/ RemoteRemove
    \/ CloneFind

SpecClone == InitClone /\ [][NextClone]_vars

\* ------------------------------------------------- _clone: properties

\* the templates of the inventory before the command that bear the source name
C22_Templates ==
    {i \in 1..Len(rcall.before) :
        rcall.before[i].template /\ rcall.before[i].name = Val(rcall.source)}

\* C22: a clone whose source names a template resolves that template as the clone
\* source and submits a Clone request for each new name that does not already exist.
C22_CloneFromTemplate ==
    ( /\ rcall.op = "clone"
      /\ rcall.pc = "done"
      /\ rcall.source # None
      /\ C22_Templates # {} ) =>
        \A k \in 1..Len(rcall.names) :
            (\A i \in 1..Len(rcall.before) : rcall.before[i].name # rcall.names[k]) =>
                \E j \in 1..Len(rcall.log), i \in C22_Templates :
                    /\ rcall.log[j].kind = "Clone"
                    /\ rcall.log[j].src = rcall.before[i].id
                    /\ rcall.log[j].name = rcall.names[k]

\* C30: in _clone a PowerOn request is submitted for a new VM only after its Clone
\* task was observed in state success and the clone was re-resolved to exactly one
\* VM, and only when a clone source was given: a clone whose task ended in error or
\* timed out is never powered on, and a backup clone is never powered on.
C30_PowerOnAfterSuccess ==
    rcall.op = "clone" =>
        /\ \A k \in 1..Len(rcall.log) :
              rcall.log[k].kind = "PowerOn" =>
                 /\ rcall.source # None
                 /\ \E j \in 1..(k - 1) :
                       /\ rcall.log[j].kind = "Clone"
                       /\ rcall.log[j].name = rcall.log[k].name
                       /\ rcall.log[j].state = "success"
                       /\ \E r \in (j + 1)..(k - 1) :
                             /\ rcall.log[r].kind = "Resolved"
                             /\ rcall.log[r].name = rcall.log[k].name
                             /\ rcall.log[r].vms = {rcall.log[k].vm}
        /\ \A j \in 1..Len(rcall.log) :
              (rcall.log[j].kind = "Clone" /\ rcall.log[j].state # "success") =>
                 \A k \in 1..Len(rcall.log) :
                    ~(rcall.log[k].kind = "PowerOn" /\ rcall.log[k].name = rcall.log[j].name)

\* of two clones of one command one is powered on, the other, whose task did not
\* reach success in time, is not
C30_Witness ==
    /\ rcall.op = "clone"
    /\ rcall.pc = "done"
    /\ \E j, k \in 1..Len(rcall.log) :
          /\ rcall.log[j].kind = "Clone"
          /\ rcall.log[j].state = "running"
          /\ rcall.log[k].kind = "PowerOn"

\* ================================================= _shutdown with reboot

\* -W / --wait of the reboot command: the budget of the shutdown loop and of
\* _waitOnTask
RebootWaitArgs == 0..MaxWait

\* StillPoweredOn that never holds
StillPoweredOnNever(powerState) == FALSE

\* line 4205: the VM is still powered on after the loop
StillPoweredOn(powerState) == powerState = "poweredOn"

\* continue: the loop of _shutdown goes on to the next VM; b is the run's record
ShutdownContinue(b) ==
    /\ batch' = [b EXCEPT !.todo = Tail(@)]
    /\ bpc' = IF Tail(b.todo) = <<>> THEN "done" ELSE "loop"

\* _shutdown is called for the reboot command (reboot=True): the VMs are resolved;
\* upgrade is -u / --upgrade-hw or -V / --hw-version
RebootStart(order, W, upgrade) ==
    /\ bpc = "idle"
    /\ batch' = [op |-> "reboot", objVms |-> {order[i] : i \in 1..Len(order)}, todo |-> order,
                 W |-> W, hotadd |-> FALSE, upgrade |-> upgrade,
                 first |-> [v \in VMs |-> "none"], check |-> [v \in VMs |-> "none"]]
    /\ bpc' = IF order = <<>> THEN "done" ELSE "loop"
    /\ UNCHANGED <<vmState, tasks, wait, outcome, timedOut, visited>>
    /\ UNCHANGED notTaskVars

\* _shutdown, lines 4187-4201: a VM that is powered off is passed over; else
\* ShutdownGuest is requested, which returns no task (_waitOnTask(None) returns at
\* once) or raises, the tools of the guest being unavailable
ShutdownGuest ==
    LET v == Head(batch.todo)
        b == [batch EXCEPT !.first[v] = vmState[v]]
    IN  /\ bpc = "loop"
        /\ batch.op = "reboot"
        /\ visited' = visited \cup {v}
        /\ IF vmState[v] = "poweredOff"
           THEN ShutdownContinue(b) /\ UNCHANGED <<tasks, wait>>
           ELSE \E raised \in BOOLEAN :
                  IF raised
                  THEN /\ tasks' = Append(tasks, [vm |-> v, kind |-> "ShutdownGuest",
                                                  state |-> "error"])
                       /\ ShutdownContinue(b)
                       /\ UNCHANGED wait
                  ELSE /\ tasks' = Append(tasks, [vm |-> v, kind |-> "ShutdownGuest",
                                                  state |-> "none"])
                       /\ batch' = b
                       /\ wait' = [task |-> 0, i |-> 0]
                       /\ bpc' = "shutdownWait"
        /\ UNCHANGED <<vmState, outcome, timedOut>>
        /\ UNCHANGED notTaskVars

\* _shutdown, lines 4202-4204: one test of the while loop and, if it holds,
\* time.sleep(1)
ShutdownWait ==
    LET v == Head(batch.todo)
    IN  /\ bpc = "shutdownWait"
        /\ IF vmState[v] = "poweredOn" /\ wait.i < batch.W
           THEN wait' = [wait EXCEPT !.i = @ + 1] /\ UNCHANGED bpc
           ELSE bpc' = "shutdownCheck" /\ UNCHANGED wait
        /\ UNCHANGED <<vmState, tasks, batch, outcome, timedOut, visited>>
        /\ UNCHANGED notTaskVars

\* _shutdown, lines 4205-4234: the power state is read again; a VM still powered on
\* is left; else the hardware upgrade, if asked for, or PowerOn is submitted
ShutdownCheck ==
    LET v == Head(batch.todo)
        b == [batch EXCEPT !.check[v] = vmState[v]]
    IN  /\ bpc = "shutdownCheck"
        /\ IF StillPoweredOn(vmState[v])
           THEN ShutdownContinue(b) /\ UNCHANGED <<tasks, wait>>
           ELSE /\ batch' = b
                /\ IF batch.upgrade
                   THEN Submit(v, "UpgradeVM_Task", "powerOn")
                   ELSE Submit(v, "PowerOn", "next")
        /\ UNCHANGED <<vmState, outcome, timedOut, visited>>
        /\ UNCHANGED notTaskVars

\* _shutdown, lines 4231-4234, after the wait for the hardware upgrade
RebootPowerOn ==
    /\ bpc = "powerOn"
    /\ Submit(Head(batch.todo), "PowerOn", "next")
    /\ UNCHANGED <<vmState, batch, outcome, timedOut, visited>>
    /\ UNCHANGED notTaskVars

\* the remote side: the guest that was asked to shut down does so
GuestShutsDown ==
    /\ \E v \in VMs :
          /\ vmState[v] = "poweredOn"
          /\ \E k \in 1..Len(tasks) :
                tasks[k] = [vm |-> v, kind |-> "ShutdownGuest", state |-> "none"]
          /\ \A k \in 1..Len(tasks) : ~(tasks[k].vm = v /\ tasks[k].kind = "PowerOn")
          /\ vmState' = [vmState EXCEPT ![v] = "poweredOff"]
    /\ UNCHANGED <<tasks, bpc, batch, wait, outcome, timedOut, visited>>
    /\ UNCHANGED notTaskVars

InitReboot == InitTask

NextReboot ==
    \/ \E order \in VmOrders, W \in RebootWaitArgs, upgrade \in BOOLEAN :
          RebootStart(order, W, upgrade)
    \/ ShutdownGuest
    \/ ShutdownWait
    \/ ShutdownCheck
    \/ RebootPowerOn
    \/ WaitPoll
    \/ WaitSleep
    \/ WaitResult
    \/ RemoteStep
    \/ GuestShutsDown

SpecReboot == InitReboot /\ [][NextReboot]_vars

\* ------------------------------------------------- reboot: properties

\* the requests of one kind the run has made for the VM v
C23_Requests(v, kind) == {k \in 1..Len(tasks) : tasks[k].vm = v /\ tasks[k].kind = kind}

\* C23: reboot is a shutdown followed by a power on: for each VM the PowerOn request
\* is submitted only after the VM has been observed no longer powered on following
\* the guest-shutdown request; when the VM is still powered on after the wait budget
\* no PowerOn is submitted, and a VM that is already powered off receives no request
\* at all.
C23_PowerOnAfterShutdown ==
    batch.op = "reboot" =>
        \A v \in VMs :
            /\ \A k \in C23_Requests(v, "PowerOn") :
                  /\ \E j \in C23_Requests(v, "ShutdownGuest") : j < k
                  /\ batch.check[v] \notin {"none", "poweredOn"}
            /\ batch.check[v] = "poweredOn" => C23_Requests(v, "PowerOn") = {}
            /\ batch.first[v] = "poweredOff" => \A k \in 1..Len(tasks) : tasks[k].vm # v

\* one VM went down and was powered on again, the other stayed up for the whole
\* budget and was left as it is
C23_Witness ==
    /\ batch.op = "reboot"
    /\ bpc = "done"
    /\ batch.W > 0
    /\ \E v, u \in VMs :
          /\ C23_Requests(v, "PowerOn") # {}
          /\ batch.check[u] = "poweredOn"
          /\ C23_Requests(u, "ShutdownGuest") # {}

\* ================================================= _waitOnTask on one task

MaxBudget == 5       \* largest wait budget of the one-task runs

\* one request is submitted and waited for with the budget W
WaitStart(W) ==
    /\ bpc = "idle"
    /\ batch' = [op |-> "start", objVms |-> {"vm1"}, todo |-> <<"vm1">>, W |-> W,
                 hotadd |-> FALSE]
    /\ tasks' = <<[vm |-> "vm1", kind |-> "PowerOn", state |-> "queued"]>>
    /\ wait' = [task |-> 1, seen |-> <<>>, sleeps |-> 0,
                exit |-> IF W = 0 THEN "budget" ELSE "none", after |-> "next"]
    /\ bpc' = IF W = 0 THEN "result" ELSE "poll"
    /\ visited' = {"vm1"}
    /\ UNCHANGED <<vmState, outcome, timedOut>>
    /\ UNCHANGED notTaskVars

InitWait == InitTask

NextWait ==
    \/ \E W \in 0..MaxBudget : WaitStart(W)
    \/ WaitPoll
    \/ WaitSleep
    \/ WaitResult
    \/ RemoteStep

SpecWait == InitWait /\ [][NextWait]_vars

\* ------------------------------------------------- _waitOnTask on one task: properties

\* no poll of the call that returned read success or error
C24_NeverTerminal ==
    \A k \in 1..Len(outcome.seen) : outcome.seen[k] \notin {"success", "error"}

\* the state first read success at the 3rd poll
C24_SuccessAtThirdPoll ==
    /\ outcome # NoOutcome
    /\ Len(outcome.seen) >= 3
    /\ outcome.seen[3] = "success"

\* C24 (as stated): a task whose state first reads success at the 3rd poll makes
\* _waitOnTask return success after at least 3 and fewer than 4 one-second
\* intervals have elapsed; a task that never reaches a terminal state within a
\* budget of 5 makes it return after 5 intervals and not earlier.
C24_ThirdPollAfterThree ==
    /\ C24_SuccessAtThirdPoll =>
          (outcome.state = "success" /\ outcome.sleeps >= 3 /\ outcome.sleeps < 4)
    /\ (outcome # NoOutcome /\ outcome.W = 5 /\ C24_NeverTerminal) => outcome.sleeps = 5

\* C24 (amended): the first poll is made before any sleep, so a task whose state
\* first reads success at the 3rd poll makes _waitOnTask return success after
\* exactly 2 one-second intervals (at least 2 and fewer than 3); a task that never
\* reaches a terminal state within a budget of 5 makes it return after 5 intervals
\* and not earlier.
C24_ThirdPollAfterTwo ==
    /\ C24_SuccessAtThirdPoll =>
          (outcome.state = "success" /\ outcome.sleeps = 2 /\ Len(outcome.seen) = 3)
    /\ (outcome # NoOutcome /\ outcome.W = 5 /\ C24_NeverTerminal) =>
          (outcome.sleeps = 5 /\ Len(outcome.seen) = 5)
    /\ (bpc = "result" /\ batch.W = 5 /\ wait.exit = "budget") => wait.sleeps = 5

C24_Witness ==
    /\ C24_SuccessAtThirdPoll
    /\ outcome.W = 5

\* ================================================= _addVmDisk

\* the unit numbers of a SCSI bus a disk can have; 7 is the controller's own
UnitNumbers == (0..15) \ {7}

\* the controllers of the model: the first SCSI controller, a second SCSI
\* controller, a SATA controller
Controller(key) ==
    CASE key = "scsi0" -> [kind |-> "VirtualSCSIController", key |-> key, busNumber |-> 0]
      [] key = "scsi1" -> [kind |-> "VirtualSCSIController", key |-> key, busNumber |-> 1]
      [] key = "sata0" -> [kind |-> "VirtualSATAController", key |-> key, busNumber |-> 0]

\* the disks of one controller, by unit number
DisksOf(key, units) ==
    [i \in 1..Cardinality(units) |->
        [kind |-> "VirtualDisk", controllerKey |-> key,
         unitNumber |-> CHOOSE u \in units : Cardinality({w \in units : w < u}) = i - 1]]

\* config.hardware.device: the controllers, then the disks of each controller
Devices(first, second, units0, units1) ==
    first \o second \o DisksOf("scsi0", units0) \o DisksOf(second[1].key, units1)

\* the unit numbers in use on the first SCSI controller and on the other one
UnitSets0 == {{u \in UnitNumbers : u < k} : k \in 0..16} \cup {{0, 2}, {0, 1, 2, 15}}
UnitSets1 == {{0}, {0, 1}, {5}, {14}}

DeviceLists ==
    {<<Controller("scsi0")>> \o DisksOf("scsi0", units0) : units0 \in UnitSets0}
    \cup
    {Devices(<<Controller("scsi0")>>, <<Controller(k)>>, units0, units1) :
        k \in {"scsi1", "sata0"}, units0 \in UnitSets0, units1 \in UnitSets1}
    \cup
    {<<Controller(k)>> \o DisksOf(k, units1) : k \in {"scsi1", "sata0"}, units1 \in UnitSets1}

\* the unit numbers of the disks of one controller
UnitsOn(devs, key) ==
    {devs[i].unitNumber : i \in {i \in 1..Len(devs) :
                                    devs[i].kind = "VirtualDisk" /\ devs[i].controllerKey = key}}

\* lines 3329-3344: the loop over the devices, from device i on; s holds
\* _unitNumber and _controller (None as long as unassigned) and whether the loop
\* has left the function at line 3342
RECURSIVE ScanDevices(_, _, _, _)
ScanDevices(devs, bus, i, s) ==
    IF i > Len(devs) \/ s.returned
    THEN s
    ELSE LET dev == devs[i]
             n == IF dev.kind = "VirtualDisk" THEN dev.unitNumber + 1 ELSE 0
             s1 == IF dev.kind # "VirtualDisk" THEN s
                   ELSE IF n = 7 THEN [s EXCEPT !.unitNumber = Some(n + 1)]
                   ELSE IF n >= 16 THEN [s EXCEPT !.unitNumber = Some(n), !.returned = TRUE]
                   ELSE [s EXCEPT !.unitNumber = Some(n)]
             s2 == IF ~s1.returned /\ dev.kind = "VirtualSCSIController" /\ dev.busNumber = bus
                   THEN [s1 EXCEPT !.controller = Some(dev.key)]
                   ELSE s1
         IN  ScanDevices(devs, bus, i + 1, s2)

\* the locals of _addVmDisk after the loop; the add command has no controller
\* option, so _bus is 0
Scanned(devs) ==
    ScanDevices(devs, 0, 1, [unitNumber |-> None, controller |-> None, returned |-> FALSE])

\* _addVmDisk reaches Reconfigure at line 3373: the loop did not return, a
\* controller was found and _unitNumber is bound (line 3363 raises otherwise)
DiskSubmits(s) == ~s.returned /\ s.controller # None /\ s.unitNumber # None

\* the devices after the new disk was created
WithDisk(devs, key, unit) ==
    LET ctls == SelectSeq(devs, LAMBDA d : d.kind # "VirtualDisk")
        other == IF Len(ctls) = 2 THEN ctls[2].key ELSE "none"
    IN  ctls \o DisksOf(key, UnitsOn(devs, key) \cup {unit}) \o DisksOf(other, UnitsOn(devs, other))

\* _addVmDisk for the VM of the model; the server refuses a unit number that is in
\* use on the controller or is the controller's own
AddVmDisk(size) ==
    LET s == Scanned(vm.device)
        call == [op |-> "disk", size |-> size, before |-> vm, scan |-> s,
                 raised |-> ~s.returned /\ s.controller # None /\ s.unitNumber = None,
                 submitted |-> FALSE, spec |-> None, state |-> None]
    IN  /\ pending = None
        /\ UNCHANGED pending
        /\ UNCHANGED notDeltaVars
        /\ IF DiskSubmits(s)
           THEN LET key == Val(s.controller)
                    unit == Val(s.unitNumber)
                    free == unit \in UnitNumbers \ UnitsOn(vm.device, key)
                IN  \E st \in (IF free THEN TaskStates ELSE TaskStates \ {"success"}) :
                    \E done \in (IF ~free \/ st = "error" THEN {FALSE}
                                 ELSE IF st = "success" THEN {TRUE} ELSE BOOLEAN) :
                       /\ last' = [call EXCEPT !.submitted = TRUE,
                                               !.spec = Some([controllerKey |-> key,
                                                              unitNumber |-> unit,
                                                              capacityInKB |-> size * KBperGB]),
                                               !.state = Some(st)]
                       /\ vm' = IF done
                                THEN [vm EXCEPT !.device = WithDisk(vm.device, key, unit)]
                                ELSE vm
           ELSE /\ last' = call
                /\ UNCHANGED vm

InitDisk ==
    /\ vm \in [powerState : {"poweredOff"}, numCpu : {1}, memorySizeMB : {MBperGB},
               disks : {<<>>}, device : DeviceLists]
    /\ last = NoCall
    /\ pending = None
    /\ IdleTag
    /\ IdleTask
    /\ IdleRes

NextDisk == \E size \in 1..MaxSizeArg : AddVmDisk(size)

SpecDisk == InitDisk /\ [][NextDisk]_vars

\* ------------------------------------------------- _addVmDisk: properties

\* the first SCSI controller of the VM the last call saw
C25_Target ==
    {i \in 1..Len(last.before.device) :
        /\ last.before.device[i].kind = "VirtualSCSIController"
        /\ last.before.device[i].busNumber = 0}

\* C25: whenever _addVmDisk submits a create-and-attach request, the unit number it
\* requests is free on the target controller (no existing disk of that controller
\* uses it), is not the reserved slot 7, and is below 16; when the bus is saturated
\* or the controller is not found, nothing is submitted.
C25_FreeUnitNumber ==
    last.op = "disk" =>
        /\ last.submitted =>
              /\ Val(last.spec).unitNumber \notin UnitsOn(last.before.device, Val(last.spec).controllerKey)
              /\ Val(last.spec).unitNumber # 7
              /\ Val(last.spec).unitNumber < 16
        /\ (C25_Target = {} \/ UnitNumbers \subseteq UnitsOn(last.before.device, "scsi0")) =>
              ~last.submitted

\* ================================================= _toList on strings and lists of strings

MaxStrLen == 2       \* longest string of a names argument
MaxListLen == 2      \* most strings in a names argument that is a list

\* the characters of the names arguments
Chars == {"P", "b", "f", ",", " ", "\t"}

\* what str.split() without a separator splits on
Whitespace == {" ", "\t"}

Strings == UNION {[1..n -> Chars] : n \in 0..MaxStrLen}

\* the names argument: None, a string, or a list of strings
ToListArgs ==
    {None}
    \cup {Some([str |-> TRUE, value |-> x]) : x \in Strings}
    \cup {Some([str |-> FALSE, value |-> x]) :
             x \in UNION {[1..n -> Strings] : n \in 0..MaxListLen}}

\* the local files: the path f is a readable file with these lines (the line ends
\* left out), every other path is no file
FilePaths == {<<"f">>}
FileLines ==
    << <<"P", " ", "b">>, <<>>, <<"#", "P">>, <<"\t">>, <<"b", ",", "P">>, <<" ", "#", "b">> >>

\* str.replace(a, b) for single characters
Replace(x, a, b) == [i \in 1..Len(x) |-> IF x[i] = a THEN b ELSE x[i]]

\* str.split(sep) for a separator of one character: the pieces, empty ones included
RECURSIVE Split(_, _)
Split(x, sep) ==
    IF \A i \in 1..Len(x) : x[i] # sep
    THEN <<x>>
    ELSE LET i == CHOOSE i \in 1..Len(x) : x[i] = sep /\ \A j \in 1..(i - 1) : x[j] # sep
         IN  <<SubSeq(x, 1, i - 1)>> \o Split(SubSeq(x, i + 1, Len(x)), sep)

\* str.split(): the pieces between runs of whitespace, none of them empty
SplitWhitespace(x) ==
    SelectSeq(Split([i \in 1..Len(x) |-> IF x[i] \in Whitespace THEN " " ELSE x[i]], " "),
              LAMBDA piece : piece # <<>>)

\* lines 2029-2035: the tokens read from a file
RECURSIVE FileTokens(_)
FileTokens(lines) ==
    IF lines = <<>>
    THEN <<>>
    ELSE IF Len(SplitWhitespace(Head(lines))) = 0
            \/ (Head(lines) # <<>> /\ Head(lines)[1] = "#")
         THEN FileTokens(Tail(lines))
         ELSE <<SplitWhitespace(Head(lines))[1]>> \o FileTokens(Tail(lines))

\* lines 2024-2039: the loop over names
RECURSIVE Expand(_)
Expand(names) ==
    IF names = <<>>
    THEN <<>>
    ELSE (IF Head(names) = <<>>
          THEN <<>>
          ELSE IF Head(names) \in FilePaths
               THEN FileTokens(FileLines)
               ELSE Split(Head(names), ","))
         \o Expand(Tail(names))

\* _toList: None, or the list of tokens
ToListTokens(names) ==
    IF names = None
    THEN None
    ELSE LET list == IF Val(names).str
                     THEN Split(Replace(Val(names).value, ",", " "), " ")
                     ELSE Val(names).value
             lowered == [i \in 1..Len(Expand(list)) |-> Lower(Expand(list)[i])]
         IN  IF Len(lowered) = 0 THEN None ELSE Some(lowered)

\* one call of _toList
ToListCall(names) ==
    /\ rcall.op = "none"
    /\ rcall' = [op |-> "toList", names |-> names, result |-> ToListTokens(names)]
    /\ UNCHANGED <<inv, snap, nics, rprev>>
    /\ UNCHANGED notResVars

InitToList ==
    /\ inv = <<>>
    /\ snap = <<>>
    /\ nics = <<>>
    /\ rcall = NoResCall
    /\ rprev = NoResCall
    /\ IdleDelta
    /\ IdleTag
    /\ IdleTask

NextToList == \E names \in ToListArgs : ToListCall(names)

SpecToList == InitToList /\ [][NextToList]_vars

\* ------------------------------------------------- _toList: properties

\* C26: _toList flattens comma- and whitespace-separated input into single tokens,
\* expands every token that is a readable file into one token per line that is
\* neither blank nor a '#' comment, and lower-cases all tokens: for every input (a
\* string or a list of strings) the returned list contains no empty token and no
\* token that still contains a comma or whitespace.
C26_CleanTokens ==
    (rcall.op = "toList" /\ rcall.result # None) =>
        \A k \in 1..Len(Val(rcall.result)) :
            LET token == Val(rcall.result)[k]
            IN  /\ token # <<>>
                /\ \A i \in 1..Len(token) : token[i] \notin {","} \cup Whitespace
                /\ token = Lower(token)

\* ================================================= _snapshot: the search for a snapshot id, step by step

\* the ids searched for: those of the model and one no snapshot has
SearchIds == SnapIds \cup {9}

\* lines 4278-4280: an id is given and the VM has a snapshot (the snapshot filter of
\* _getVmObjects); _ss is the first root
SearchStart(t, id) ==
    /\ rcall.op = "none"
    /\ t # {}
    /\ rcall' = [op |-> "search", pc |-> "while", tree |-> t, id |-> id,
                 ss |-> Some(First(ChildSnapshotList(t, 0)).id), visited |-> <<>>]
    /\ UNCHANGED <<inv, snap, nics, rprev>>
    /\ UNCHANGED notResVars

\* lines 4282-4290: one turn of the while loop
SearchStep ==
    /\ rcall.op = "search"
    /\ rcall.pc = "while"
    /\ rcall' = IF Val(rcall.ss) = rcall.id
                THEN [rcall EXCEPT !.pc = "done", !.visited = Append(@, Val(rcall.ss))]
                ELSE IF Cardinality(ChildSnapshotList(rcall.tree, Val(rcall.ss))) = 0
                THEN [rcall EXCEPT !.pc = "done", !.ss = None,
                                   !.visited = Append(@, Val(rcall.ss))]
                ELSE [rcall EXCEPT !.ss = Some(First(ChildSnapshotList(rcall.tree,
                                                                        Val(rcall.ss))).id),
                                   !.visited = Append(@, Val(rcall.ss))]
    /\ UNCHANGED <<inv, snap, nics, rprev>>
    /\ UNCHANGED notResVars

\* the search is over and its locals are gone
SearchReturn ==
    /\ rcall.op = "search"
    /\ rcall.pc = "done"
    /\ rcall' = NoResCall
    /\ UNCHANGED <<inv, snap, nics, rprev>>
    /\ UNCHANGED notResVars

InitSearch ==
    /\ inv = <<>>
    /\ snap = <<>>
    /\ nics = <<>>
    /\ rcall = NoResCall
    /\ rprev = NoResCall
    /\ IdleDelta
    /\ IdleTag
    /\ IdleTask

NextSearch ==
    \/ \E t \in Trees, id \in SearchIds : SearchStart(t, id)
    \/ SearchStep
    \/ SearchReturn

SpecSearch == InitSearch /\ [][NextSearch]_vars

\* ------------------------------------------------- the search for a snapshot id: properties

\* the child of p created first; p is 0 for the roots
C27_FirstChild(t, p) ==
    CHOOSE c \in t : c.parent = p /\ \A d \in t : d.parent = p => c.id <= d.id

\* the chain of a tree from the node n on, as the sequence of its ids
RECURSIVE C27_ChainFrom(_, _)
C27_ChainFrom(t, n) ==
    <<n.id>> \o (IF \E c \in t : c.parent = n.id
                 THEN C27_ChainFrom(t, C27_FirstChild(t, n.id))
                 ELSE <<>>)

C27_ChainOf(t) == C27_ChainFrom(t, C27_FirstChild(t, 0))

\* the places of the chain that bear the id searched for
C27_Hits == {i \in 1..Len(C27_ChainOf(rcall.tree)) : C27_ChainOf(rcall.tree)[i] = rcall.id}

\* C27: on a VM's snapshot chain (the root, then repeatedly the first child only)
\* the search for an id returns the first node in chain order whose id equals the
\* target and returns nil when no node of the chain has that id, ending at the last
\* node; a node reachable only through a non-first child is never visited.
C27_ChainSearch ==
    rcall.op = "search" =>
        /\ rcall.visited = SubSeq(C27_ChainOf(rcall.tree), 1, Len(rcall.visited))
        /\ rcall.pc = "done" =>
              IF C27_Hits # {}
              THEN /\ rcall.ss = Some(rcall.id)
                   /\ Len(rcall.visited) = CHOOSE i \in C27_Hits : \A j \in C27_Hits : i <= j
              ELSE /\ rcall.ss = None
                   /\ rcall.visited = C27_ChainOf(rcall.tree)
        /\ rcall.pc = "done" =>
              rcall.ss = FindById(rcall.tree, First(ChildSnapshotList(rcall.tree, 0)), rcall.id)

\* the id searched for is that of a snapshot off the chain, below a second child
C27_Witness ==
    /\ rcall.op = "search"
    /\ rcall.pc = "done"
    /\ rcall.ss = None
    /\ Len(rcall.visited) >= 2
    /\ \E n \in rcall.tree : n.id = rcall.id /\ n.parent # 0

====
